---------------------------- MODULE Spec2Model ----------------------------
(***************************************************************************)
(* A model of tickettok: the persisted Store of agents, the AgentManager   *)
(* registry of tmux session handles, the per-backend status classifier,    *)
(* the hook status files and the discovery merge.                          *)
(*                                                                         *)
(* Strings are modelled as sequences of tokens: a token is an indivisible  *)
(* piece of text (a phrase, a glyph, a blank, an ANSI escape sequence).    *)
(* A pane is a sequence of lines (what strings.Split(content, "\n")        *)
(* returns), a line a sequence of tokens.  Glyphs outside ASCII are named  *)
(* by their code point: "U+276F" is the prompt glyph, "U+273B" a spinner   *)
(* dingbat, "U+2026" the one-character ellipsis.                           *)
(*                                                                         *)
(* The specifications share the variables:                                 *)
(*   Spec        the dashboard: spawn, tick, discovery, kill, clear, with  *)
(*               sessions that start and end outside it;                   *)
(*   SpecHook    one agent, its hook status file and the clock;            *)
(*   SpecSave    the Store's mutations with Store.save in steps and a      *)
(*               process that can be killed and started again;             *)
(*   SpecStore   SpecSave with the clock advancing between operations;     *)
(*   SpecDetect  the backends' DetectStatus on bounded panes;              *)
(*   SpecDiscover  the dashboard with Discover() computed from the tmux    *)
(*               sessions and the processes of the machine;                *)
(*   SpecManager the AgentManager over several runs of the program: spawn, *)
(*               send, kill, quit (CloseAll) and start again;              *)
(*   SpecLock    the calls of the AgentManager step by step, two           *)
(*               goroutines and the lock m.mu.                             *)
(*   SpecKill    SpecHook with the kill of the agent;                      *)
(*   SpecStrip   the backends' StripChrome on bounded lists of lines;      *)
(*   SpecPersist agents added under names and directories, the process     *)
(*               stopping and a new one loading the state file;            *)
(*   SpecStartup NewStore on the files an earlier run can have left;       *)
(*   SpecRegistry  the backend registry from its first registration on;    *)
(*   SpecRace    the AgentManager's calls on one agent step by step with   *)
(*               their data, two goroutines;                               *)
(*   SpecSend    SpecKill with the send key;                               *)
(*   SpecReuse   agents leaving the Store by kill, clear and pruning over  *)
(*               several runs of the program, while the hooks write;       *)
(*   SpecShare   the accesses to a stored agent's fields step by step,     *)
(*               the Update loop, a command goroutine and the lock s.mu;   *)
(*   SpecPrune   discovered agents, ticks and the clock around the grace   *)
(*               window of the pruning pass;                               *)
(*   SpecGone    SpecPrune with a clock that never stops, under fairness   *)
(*               of the tick and of the clock;                             *)
(*   SpecZoom    the zoom view and the captures in flight.                 *)
(* The hook scripts write in SpecHook, SpecKill, SpecSend and SpecReuse    *)
(* only: in Spec the status files stay absent and every status comes from  *)
(* the scraping path.                                                      *)
(***************************************************************************)
EXTENDS Integers, Sequences, FiniteSets, TLC

VARIABLES
    backendID,   \* classifier run: the backend tag of the agent being classified
    content,     \* classifier run: the captured pane, a sequence of lines
    detected,    \* classifier run: what DetectStatus returned, "none" before the call
    waiting,     \* StripChrome run: the flag it is called with
    stripped,    \* StripChrome run: whether it has returned, and the lines it returned
    agents,      \* Store.agents, in order; between handlers Model.agents lists the same agents
    nextID,      \* Store.nextID
    sessions,    \* AgentManager.sessions: agent ID -> TmuxSession handle
    tmux,        \* the names of the tmux sessions that exist
    hook,        \* the hook status files: agent ID -> record, or NoFile
    now,         \* the wall clock, in seconds
    pending,     \* the discoverMsg in flight: a list of DiscoveredAgent, or NoMsg
    last,        \* what the last step did and observed
    file,        \* the state file on disk
    saving,      \* the Store.save in progress, and whether the process is up
    issued,      \* history: the IDs Store.Add has handed out, over all processes
    mu,          \* AgentManager.mu: the goroutine holding it for writing, and the readers
    threads,     \* the AgentManager call each goroutine is in, and its position
    heap,        \* the TmuxSession objects allocated in SpecRace, by address
    backends,    \* the backend registry: the IDs that have a backend
    defaultID,   \* the registry's defaultID, "" while nothing is registered
    registrations,  \* history: the IDs passed to RegisterBackend, in call order
    view,        \* Model.view: "board" for the board and the carousel, or "zoom"
    zoomSession, \* Model.zoomSession: the session shown in the zoom view
    captures     \* the zoomCaptureCmd running and zoomTickMsg undelivered, by target session

detectVars == <<backendID, content, detected, waiting, stripped>>

saveVars == <<file, saving, issued>>

lockVars == <<mu, threads, heap>>

registryVars == <<backends, defaultID, registrations>>

zoomVars == <<view, zoomSession, captures>>

mainVars == <<agents, nextID, sessions, tmux, hook, now, pending, last>>

vars == <<backendID, content, detected, waiting, stripped, agents, nextID, sessions, tmux, hook, now,
          pending, last, file, saving, issued, mu, threads, heap, backends,
          defaultID,
          registrations, view, zoomSession, captures>>

-----------------------------------------------------------------------------
(* AgentStatus, the closed enum of state.go *)

StatusRunning == "RUNNING"
StatusIdle == "IDLE"
StatusWaiting == "WAITING"
StatusDone == "DONE"

AgentStatus == {StatusRunning, StatusIdle, StatusWaiting, StatusDone}

BackendIDs == {"claude", "gemini", "codex"}

-----------------------------------------------------------------------------
(* Text primitives *)

\* ansiRe matches an escape sequence; the token "ESC[0m" is one.
IsAnsi(t) == t = "ESC[0m"

\* unicode.IsSpace on the only blank token.
IsSpace(t) == t = " "

\* stripAnsiStr: every match of ansiRe is replaced by the empty string.
stripAnsiStr(line) == SelectSeq(line, LAMBDA t : ~IsAnsi(t))

RECURSIVE TrimLeft(_)
TrimLeft(line) ==
    IF line # <<>> /\ IsSpace(Head(line)) THEN TrimLeft(Tail(line)) ELSE line

RECURSIVE TrimRight(_)
TrimRight(line) ==
    IF line # <<>> /\ IsSpace(line[Len(line)])
    THEN TrimRight(SubSeq(line, 1, Len(line) - 1))
    ELSE line

\* strings.TrimSpace
TrimSpace(line) == TrimRight(TrimLeft(line))

\* strings.ToLower on one token
LowerTok(t) ==
    CASE t = "Processing files" -> "processing files"
      [] t = "Running..." -> "running..."
      [] t = "Allow once" -> "allow once"
      [] t = "Type your message" -> "type your message"
      [] t = "Goodbye!" -> "goodbye!"
      [] OTHER -> t

\* strings.ToLower
ToLower(line) == [i \in DOMAIN line |-> LowerTok(line[i])]

\* The marker phrases that occur inside a token (byte-wise substring).
Substrings(t) ==
    CASE t = "esc to interrupt" -> {"esc to interrupt"}
      [] t = "esc to cancel" -> {"esc to cancel"}
      [] t = "U+2026" -> {"U+2026"}
      [] t = "Running..." -> {"..."}
      [] t = "running..." -> {"running...", "..."}
      [] t = "allow once" -> {"allow once", "allow"}
      [] t = "y/n" -> {"y/n"}
      [] t = "U+276F" -> {"U+276F"}
      [] t = "type your message" -> {"type your message"}
      [] t = "tokens used" -> {"tokens used"}
      [] t = "Goodbye!" -> {"bye"}
      [] t = "goodbye!" -> {"goodbye", "bye"}
      [] t = "exited" -> {"exited"}
      [] OTHER -> {}

\* strings.Contains(line, p)
Contains(line, p) == \E i \in DOMAIN line : p \in Substrings(line[i])

\* strings.HasSuffix(line, <tok> + " "): the line ends with tok and one blank.
HasSuffixBlank(line, tok) ==
    /\ Len(line) >= 2
    /\ line[Len(line)] = " "
    /\ line[Len(line) - 1] = tok

\* hasDingbat: some rune of the line lies in U+2700..U+27BF.  The spinner
\* U+273B and the prompt glyph U+276F both do.
hasDingbat(line) == \E i \in DOMAIN line : line[i] \in {"U+273B", "U+276F"}

\* The loop all three DetectStatus share: scan the lines bottom-up and keep
\* the first n that are not blank once ANSI codes and blanks are removed.
\* recent[1] is the bottommost one.
RECURSIVE RecentFrom(_, _, _, _)
RecentFrom(lines, i, n, acc) ==
    IF i < 1 \/ Len(acc) >= n THEN acc
    ELSE LET line == TrimSpace(stripAnsiStr(lines[i]))
         IN  RecentFrom(lines, i - 1, n,
                        IF line # <<>> THEN Append(acc, line) ELSE acc)

\* A window one line longer.
RecentOneMore(lines, n) == RecentFrom(lines, Len(lines), n + 1, <<>>)

Recent(lines, n) == RecentFrom(lines, Len(lines), n, <<>>)

-----------------------------------------------------------------------------
(* Backend.DetectStatus, one per backend *)

ClaudeWindow == 15
GeminiWindow == 20
CodexWindow == 20

DonePhrases == {"exited", "goodbye", "session ended", "bye"}

\* The DONE test: the bottommost line, lower-cased, contains a termination phrase.
BottomDone(recent) == \E p \in DonePhrases : Contains(ToLower(recent[1]), p)

ClaudeRunningLine(line) ==
    LET lower == ToLower(line)
        hasEllipsis == Contains(line, "U+2026") \/ Contains(line, "...")
    IN  \/ Contains(lower, "esc to interrupt")
        \/ Contains(lower, "runningU+2026") \/ Contains(lower, "running...")
        \/ (hasEllipsis /\ hasDingbat(line))

ClaudeWaitingPhrases ==
    {"allow once", "allow always", "enter to select", "space to select",
     "yes/no/always allow", "do you want to proceed", "shall i proceed",
     "should i proceed", "approve", "deny", "reject", "(y)es", "(n)o", "y/n",
     "yes/no", "ctrl+g to edit"}

ClaudeWaitingLine(line) ==
    \E p \in ClaudeWaitingPhrases : Contains(ToLower(line), p)

ClaudeIdleLine(line) ==
    LET lower == ToLower(line)
    IN  \/ line = <<">">> \/ line = <<"$">>
        \/ HasSuffixBlank(line, ">")
        \/ HasSuffixBlank(line, "$")
        \/ Contains(line, "U+276F")
        \/ Contains(lower, "? for shortcuts")
        \/ Contains(lower, "has completed")
        \/ Contains(lower, "anything else")
        \/ Contains(lower, "can i help")

\* Mutant: WAITING is tried before RUNNING.
ClaudeDetectStatusWaitingFirst(lines) ==
    LET recent == Recent(lines, ClaudeWindow)
    IN  IF Len(recent) = 0 THEN StatusRunning
        ELSE IF \E i \in DOMAIN recent : ClaudeWaitingLine(recent[i]) THEN StatusWaiting
        ELSE IF \E i \in DOMAIN recent : ClaudeRunningLine(recent[i]) THEN StatusRunning
        ELSE IF \E i \in DOMAIN recent : ClaudeIdleLine(recent[i]) THEN StatusIdle
        ELSE IF BottomDone(recent) THEN StatusDone
        ELSE StatusRunning

\* Mutant: the termination phrases are looked for in every line of the window.
ClaudeDetectStatusDoneAnywhere(lines) ==
    LET recent == Recent(lines, ClaudeWindow)
    IN  IF Len(recent) = 0 THEN StatusRunning
        ELSE IF \E i \in DOMAIN recent : ClaudeRunningLine(recent[i]) THEN StatusRunning
        ELSE IF \E i \in DOMAIN recent : ClaudeWaitingLine(recent[i]) THEN StatusWaiting
        ELSE IF \E i \in DOMAIN recent : ClaudeIdleLine(recent[i]) THEN StatusIdle
        ELSE IF \E i \in DOMAIN recent, p \in DonePhrases :
                    Contains(ToLower(recent[i]), p) THEN StatusDone
        ELSE StatusRunning

ClaudeDetectStatus(lines) ==
    LET recent == Recent(lines, ClaudeWindow)
    IN  IF Len(recent) = 0 THEN StatusRunning
        ELSE IF \E i \in DOMAIN recent : ClaudeRunningLine(recent[i]) THEN StatusRunning
        ELSE IF \E i \in DOMAIN recent : ClaudeWaitingLine(recent[i]) THEN StatusWaiting
        ELSE IF \E i \in DOMAIN recent : ClaudeIdleLine(recent[i]) THEN StatusIdle
        ELSE IF BottomDone(recent) THEN StatusDone
        ELSE StatusRunning

GeminiRunningLine(line) == Contains(ToLower(line), "esc to cancel")

GeminiWaitingPhrases ==
    {"approve", "deny", "allow", "yes/no", "y/n", "(y)es", "(n)o",
     "do you want to proceed", "shall i proceed", "should i proceed"}

GeminiWaitingLine(line) ==
    \E p \in GeminiWaitingPhrases : Contains(ToLower(line), p)

GeminiIdleLine(line) ==
    LET lower == ToLower(line)
    IN  \/ Contains(lower, "type your message")
        \/ Contains(lower, "what would you like")
        \/ Contains(lower, "how can i help")
        \/ Contains(lower, "let me know what")

\* Mutant: IDLE is tried before RUNNING and WAITING.
GeminiDetectStatusIdleFirst(lines) ==
    LET recent == Recent(lines, GeminiWindow)
    IN  IF Len(recent) = 0 THEN StatusRunning
        ELSE IF BottomDone(recent) THEN StatusDone
        ELSE IF \E i \in DOMAIN recent : GeminiIdleLine(recent[i]) THEN StatusIdle
        ELSE IF \E i \in DOMAIN recent : GeminiRunningLine(recent[i]) THEN StatusRunning
        ELSE IF \E i \in DOMAIN recent : GeminiWaitingLine(recent[i]) THEN StatusWaiting
        ELSE StatusRunning

\* Mutant: a pane without a non-blank line is IDLE.
GeminiDetectStatusBlankIsIdle(lines) ==
    LET recent == Recent(lines, GeminiWindow)
    IN  IF Len(recent) = 0 THEN StatusIdle
        ELSE IF BottomDone(recent) THEN StatusDone
        ELSE IF \E i \in DOMAIN recent : GeminiRunningLine(recent[i]) THEN StatusRunning
        ELSE IF \E i \in DOMAIN recent : GeminiWaitingLine(recent[i]) THEN StatusWaiting
        ELSE IF \E i \in DOMAIN recent : GeminiIdleLine(recent[i]) THEN StatusIdle
        ELSE StatusRunning

GeminiDetectStatus(lines) ==
    LET recent == Recent(lines, GeminiWindow)
    IN  IF Len(recent) = 0 THEN StatusRunning
        ELSE IF BottomDone(recent) THEN StatusDone
        ELSE IF \E i \in DOMAIN recent : GeminiRunningLine(recent[i]) THEN StatusRunning
        ELSE IF \E i \in DOMAIN recent : GeminiWaitingLine(recent[i]) THEN StatusWaiting
        ELSE IF \E i \in DOMAIN recent : GeminiIdleLine(recent[i]) THEN StatusIdle
        ELSE StatusRunning

CodexRunningLine(line) == Contains(ToLower(line), "esc to interrupt")

CodexWaitingPhrases ==
    {"approve", "deny", "allow", "yes/no", "y/n", "(y)es", "(n)o",
     "do you want to proceed", "permission", "/permissions"}

CodexWaitingLine(line) ==
    \E p \in CodexWaitingPhrases : Contains(ToLower(line), p)

CodexIdleLine(line) ==
    LET lower == ToLower(line)
    IN  \/ Contains(lower, "tokens used")
        \/ Contains(lower, "what would you like")
        \/ Contains(lower, "how can i help")
        \/ line = <<">">> \/ line = <<"$">>
        \/ HasSuffixBlank(line, ">")
        \/ HasSuffixBlank(line, "$")

\* Mutant: no status is returned when no rule matches.
CodexDetectStatusNoDefault(lines) ==
    LET recent == Recent(lines, CodexWindow)
    IN  IF Len(recent) = 0 THEN ""
        ELSE IF BottomDone(recent) THEN StatusDone
        ELSE IF \E i \in DOMAIN recent : CodexRunningLine(recent[i]) THEN StatusRunning
        ELSE IF \E i \in DOMAIN recent : CodexWaitingLine(recent[i]) THEN StatusWaiting
        ELSE IF \E i \in DOMAIN recent : CodexIdleLine(recent[i]) THEN StatusIdle
        ELSE ""

CodexDetectStatus(lines) ==
    LET recent == Recent(lines, CodexWindow)
    IN  IF Len(recent) = 0 THEN StatusRunning
        ELSE IF BottomDone(recent) THEN StatusDone
        ELSE IF \E i \in DOMAIN recent : CodexRunningLine(recent[i]) THEN StatusRunning
        ELSE IF \E i \in DOMAIN recent : CodexWaitingLine(recent[i]) THEN StatusWaiting
        ELSE IF \E i \in DOMAIN recent : CodexIdleLine(recent[i]) THEN StatusIdle
        ELSE StatusRunning

\* agent.Backend().DetectStatus(content): dispatch on the backend tag.
BackendDetectStatus(b, lines) ==
    CASE b = "claude" -> ClaudeDetectStatus(lines)
      [] b = "gemini" -> GeminiDetectStatus(lines)
      [] b = "codex" -> CodexDetectStatus(lines)

-----------------------------------------------------------------------------
(* Session names, agents, hook files *)

sessionPrefix == "tickettok_"

\* A session name is a pair <<text, number>>: a managed session is named
\* sessionPrefix followed by the agent's ID, a foreign one by a text of its own.
\* NoName is the empty string.
SessionName(id) == <<sessionPrefix, id>>

NoName == <<"", 0>>

ExternalNames == {<<"work", 0>>}

\* strings.HasPrefix(sessName, sessionPrefix)
HasManagedPrefix(name) == name[1] = sessionPrefix

\* How many agents the Store ever adds.
MaxAgents == 2

\* How many entries one discovery result holds at most.
MaxFound == 2

\* The last second the clock reaches.
MaxTime == 31

AgentIDs == 1..MaxAgents

\* DefaultBackend().ID(): the first backend registered.
DefaultBackendID == "claude"

\* Agent.Backend(): the backend the tag names, else the default one.
AgentBackend(a) ==
    IF a.BackendID \in BackendIDs THEN a.BackendID ELSE DefaultBackendID

\* A hook status file: absent, unparseable, or a JSON record {state, ts}.
NoFile == [kind |-> "absent", State |-> "", Ts |-> 0]

GarbageFile == [kind |-> "garbage", State |-> "", Ts |-> 0]

JsonFile(state, ts) == [kind |-> "json", State |-> state, Ts |-> ts]

RunningTTL == 30
OtherTTL == 300

Miss == [ok |-> FALSE, status |-> ""]

Hit(status) == [ok |-> TRUE, status |-> status]

\* Mutant: a RUNNING record never expires.
readHookStatusFileNoRunningTTL(f, t) ==
    IF f.kind # "json" THEN Miss
    ELSE LET age == t - f.Ts
         IN  CASE f.State = "RUNNING" -> Hit(StatusRunning)
               [] f.State = "WAITING" -> IF age > OtherTTL THEN Miss ELSE Hit(StatusWaiting)
               [] f.State = "IDLE" -> IF age > OtherTTL THEN Miss ELSE Hit(StatusIdle)
               [] f.State = "DONE" -> IF age > OtherTTL THEN Miss ELSE Hit(StatusDone)
               [] OTHER -> Miss

\* readHookStatusFile / ClaudeBackend.ReadHookStatus on file f at time t.
readHookStatusFile(f, t) ==
    IF f.kind # "json" THEN Miss
    ELSE LET age == t - f.Ts
         IN  CASE f.State = "RUNNING" -> IF age > RunningTTL THEN Miss ELSE Hit(StatusRunning)
               [] f.State = "WAITING" -> IF age > OtherTTL THEN Miss ELSE Hit(StatusWaiting)
               [] f.State = "IDLE" -> IF age > OtherTTL THEN Miss ELSE Hit(StatusIdle)
               [] f.State = "DONE" -> IF age > OtherTTL THEN Miss ELSE Hit(StatusDone)
               [] OTHER -> Miss

-----------------------------------------------------------------------------
(* The Store *)

\* The index of the first agent with the ID, 0 when there is none.
RECURSIVE IndexFrom(_, _, _)
IndexFrom(ags, id, i) ==
    IF i > Len(ags) THEN 0
    ELSE IF ags[i].ID = id THEN i
    ELSE IndexFrom(ags, id, i + 1)

IndexOf(ags, id) == IndexFrom(ags, id, 1)

\* Store.Add: the new agent is RUNNING, has no session name, is not
\* discovered and carries the default backend's tag.  spawnedByUs is not a
\* field of the program: it records whether doSpawn created the agent.
NewAgent(id, t, name, dir) ==
    [ID |-> id, Name |-> name, Dir |-> dir, Status |-> StatusRunning,
     StatusSince |-> t, SessionName |-> NoName, Discovered |-> FALSE,
     BackendID |-> DefaultBackendID, spawnedByUs |-> FALSE]

\* The names and directories agents are added with.
Names == {"api", "web"}

Dirs == {"/tmp/project", "/srv/web"}

\* The name and directory of the agents of the dashboard's specifications.
OneName == "api"

OneDir == "/tmp/project"

StoreAdd(ags, id, t, name, dir) == Append(ags, NewAgent(id, t, name, dir))

\* Store.Remove
StoreRemove(ags, id) ==
    LET i == IndexOf(ags, id)
    IN  IF i = 0 THEN ags
        ELSE SubSeq(ags, 1, i - 1) \o SubSeq(ags, i + 1, Len(ags))

\* An Update that stamps the agent whatever status it is passed.
StoreUpdateAlwaysStamps(ags, id, status, t) ==
    LET i == IndexOf(ags, id)
    IN  IF i = 0 THEN ags
        ELSE [ags EXCEPT ![i].Status = status, ![i].StatusSince = t]

\* Store.Update
StoreUpdate(ags, id, status, t) ==
    LET i == IndexOf(ags, id)
    IN  IF i = 0 \/ ags[i].Status = status THEN ags
        ELSE [ags EXCEPT ![i].Status = status, ![i].StatusSince = t]

\* Store.UpdateSessionName
StoreUpdateSessionName(ags, id, name) ==
    LET i == IndexOf(ags, id)
    IN  IF i = 0 THEN ags ELSE [ags EXCEPT ![i].SessionName = name]

\* Store.UpdateDiscovered
StoreUpdateDiscovered(ags, id, d) ==
    LET i == IndexOf(ags, id)
    IN  IF i = 0 THEN ags ELSE [ags EXCEPT ![i].Discovered = d]

\* Store.ClearDone
StoreClearDone(ags) == SelectSeq(ags, LAMBDA a : a.Status # StatusDone)

-----------------------------------------------------------------------------
(* The AgentManager and its session handles *)

\* A TmuxSession handle: the session's name and whether ptmx, the background
\* client, is open; NoHandle is the nil handle.
Handle(name, open) == [Name |-> name, ptmx |-> open]

NoHandle == Handle(NoName, FALSE)

\* A closePty that leaves the client open.
closePtyKeepsClient(h) == h

\* TmuxSession.closePty
closePty(h) == [h EXCEPT !.ptmx = FALSE]

Register(reg, id, h) ==
    [i \in DOMAIN reg \cup {id} |-> IF i = id THEN h ELSE reg[i]]

\* A delete that leaves the entry in the map.
UnregisterNothing(reg, id) == reg

Unregister(reg, id) == [i \in DOMAIN reg \ {id} |-> reg[i]]

\* has-session answering yes for every name.
IsSessionAliveAlways(name, env) == TRUE

\* tmux has-session -t name.  tmux reads an empty target as its current
\* session, which some builds resolve to a session when one exists: env.empty
\* says whether this one does.
IsSessionAlive(name, env) ==
    IF name = NoName THEN env.empty /\ env.tmux # {} ELSE name \in env.tmux

\* tmux capture-pane fails when the session went away after the liveness check.
CaptureFails(name, env) == name \in env.vanish

\* The panes a capture returns in the dashboard's runs.
SamplePanes ==
    { <<<<"Processing files">>, <<"esc to interrupt">>>>,
      <<<<"Processing files">>, <<"U+276F", " ">>>>,
      <<<<"Processing files">>, <<"Goodbye!">>>> }

\* backend.DetectStatus on the sample panes, computed once.
SampleStatus ==
    [b \in BackendIDs |-> [p \in SamplePanes |-> BackendDetectStatus(b, p)]]

\* backend.DetectStatus(content) for a captured pane.
CapturedStatus(b, pane) == SampleStatus[b][pane]

\* AgentManager.GetSession: the registered handle; else, for a named session
\* that is alive, a new handle, registered, whose background client is open
\* when attachPty succeeded (its error is ignored); else nil.
GetSession(a, reg, env) ==
    IF a.ID \in DOMAIN reg THEN [sess |-> reg[a.ID], reg |-> reg]
    ELSE IF a.SessionName # NoName /\ IsSessionAlive(a.SessionName, env)
    THEN LET h == Handle(a.SessionName, env.attachOk)
         IN  [sess |-> h, reg |-> Register(reg, a.ID, h)]
    ELSE [sess |-> NoHandle, reg |-> reg]

\* A CreateSession that leaves the session behind when the attach failed.
CreateSessionNoTeardown(name, tmx, outcome) ==
    IF outcome = "new-session fails" \/ name \in tmx
    THEN [err |-> TRUE, sess |-> NoHandle, tmux |-> tmx]
    ELSE IF outcome = "attach fails"
    THEN [err |-> TRUE, sess |-> NoHandle, tmux |-> tmx \cup {name}]
    ELSE [err |-> FALSE, sess |-> Handle(name, TRUE), tmux |-> tmx \cup {name}]

\* CreateSession(name, ...): tmux new-session, which fails when it cannot
\* start the session or one of that name exists, then attachPty, whose
\* failure is followed by tmux kill-session on the session just created
\* (taken to succeed; its error is discarded).  outcome is what tmux does.
CreateSession(name, tmx, outcome) ==
    IF outcome = "new-session fails" \/ name \in tmx
    THEN [err |-> TRUE, sess |-> NoHandle, tmux |-> tmx]
    ELSE IF outcome = "attach fails"
    THEN [err |-> TRUE, sess |-> NoHandle, tmux |-> (tmx \cup {name}) \ {name}]
    ELSE [err |-> FALSE, sess |-> Handle(name, TRUE), tmux |-> tmx \cup {name}]

\* AgentManager.SpawnAgent on the agent with the ID: on success the handle
\* is registered and `name` is what agent.SessionName is set to.
SpawnAgent(id, reg, tmx, outcome) ==
    LET c == CreateSession(SessionName(id), tmx, outcome)
    IN  IF c.err
        THEN [err |-> TRUE, reg |-> reg, name |-> NoName, tmux |-> c.tmux]
        ELSE [err |-> FALSE, reg |-> Register(reg, id, c.sess),
              name |-> SessionName(id), tmux |-> c.tmux]

\* AgentManager.SendKeys: nil without a handle, else what tmux send-keys
\* returns: an error when the session does not exist or tmux fails.
SendKeys(a, reg, env, sendFails) ==
    LET g == GetSession(a, reg, env)
    IN  [err |-> g.sess # NoHandle /\ (sendFails \/ g.sess.Name \notin env.tmux),
         delivered |-> g.sess # NoHandle /\ ~sendFails /\ g.sess.Name \in env.tmux,
         reg |-> g.reg]

\* AgentManager.CloseAll
CloseAll(reg) == [i \in DOMAIN reg |-> closePty(reg[i])]

Detection(status, reg, hookOk) == [status |-> status, reg |-> reg, hookOk |-> hookOk]

\* AgentManager.DetectStatus on agent a, with `pane` what a capture returns.
ManagerDetectStatus(a, reg, env, pane) ==
    LET backend == AgentBackend(a)
    IN  IF a.Discovered
        THEN IF ~IsSessionAlive(a.SessionName, env)
             THEN Detection(StatusDone, reg, FALSE)
             ELSE IF CaptureFails(a.SessionName, env)
             THEN Detection(StatusDone, reg, FALSE)
             ELSE Detection(CapturedStatus(backend, pane), reg, FALSE)
        ELSE LET h == readHookStatusFile(env.hook[a.ID], env.now)
             IN  IF h.ok THEN Detection(h.status, reg, TRUE)
                 ELSE LET g == GetSession(a, reg, env)
                      IN  IF g.sess = NoHandle \/ ~IsSessionAlive(g.sess.Name, env)
                          THEN Detection(StatusDone, g.reg, FALSE)
                          ELSE IF CaptureFails(g.sess.Name, env)
                          THEN Detection(StatusDone, g.reg, FALSE)
                          ELSE Detection(CapturedStatus(backend, pane), g.reg, FALSE)

\* TmuxSession.Kill: closePty, then tmux kill-session, whose exit status is
\* returned: an error when no session has the name.
TmuxKill(name, tmx) == [err |-> name \notin tmx, tmux |-> tmx \ {name}]

-----------------------------------------------------------------------------
(* The dashboard: Model.Update's handlers and the world around them *)

PruneGrace == 30

Env(tmx, vanish, empty, attachOk) ==
    [tmux |-> tmx, vanish |-> vanish, empty |-> empty, attachOk |-> attachOk,
     hook |-> hook, now |-> now]

NoMsg == [inflight |-> FALSE, found |-> <<>>]

\* The state file: absent, or its bytes: the agents written so far, and
\* whether the closing brackets of the JSON document are written.
NoStateFile == [exists |-> FALSE, body |-> <<>>, closed |-> FALSE]

NotSaving == [phase |-> "idle", prev |-> NoStateFile, data |-> <<>>]

\* The values of the variables a specification does not use.
NotStripped == [done |-> FALSE, lines |-> <<>>]

DetectIdle ==
    /\ backendID = "claude" /\ content = <<>> /\ detected = "none"
    /\ waiting = FALSE /\ stripped = NotStripped

SaveIdle == file = NoStateFile /\ saving = NotSaving /\ issued = {}

\* No goroutine is in a call and the lock is free.
NoCall == [op |-> "none", steps |-> <<>>, pc |-> 1]

Goroutines == {"g1", "g2"}

\* The registry once the package's init functions have run: every backend
\* registered, Claude's first.
RegistryReady ==
    /\ backends = BackendIDs
    /\ defaultID = DefaultBackendID
    /\ registrations = <<"claude", "codex", "gemini">>

\* The dashboard shows the board and no capture is in flight.
ZoomIdle == view = "board" /\ zoomSession = NoName /\ captures = <<>>

LockIdle ==
    /\ mu = [writer |-> "none", readers |-> {}]
    /\ threads = [g \in Goroutines |-> NoCall]
    /\ heap = <<>>

Init ==
    /\ agents = <<>>
    /\ nextID = 1
    /\ sessions = <<>>
    /\ tmux = {}
    /\ hook = [id \in AgentIDs |-> NoFile]
    /\ now = 0
    /\ pending = NoMsg
    /\ last = [op |-> "init"]
    /\ DetectIdle
    /\ SaveIdle
    /\ LockIdle
    /\ RegistryReady
    /\ ZoomIdle

\* The Store has room for n more agents, those of the scan in flight counted.
Room(n) == nextID + Len(pending.found) + n <= MaxAgents + 1

\* How many entries of a scan result name a session no agent has.
Unmatched(found) ==
    Cardinality({k \in 1..Len(found) :
                    \A i \in 1..Len(agents) : agents[i].SessionName # found[k].SessionName})

\* doSpawn: Store.Add, then AgentManager.SpawnAgent; the session name is
\* stored only when the spawn succeeded.  outcome is what tmux does.
doSpawn(outcome) ==
    /\ Room(1)
    /\ LET id == nextID
           name == SessionName(id)
           added == [StoreAdd(agents, id, now, OneName, OneDir) EXCEPT ![Len(agents) + 1].spawnedByUs = TRUE]
           r == SpawnAgent(id, sessions, tmux, outcome)
       IN  /\ agents' = IF r.err THEN added ELSE StoreUpdateSessionName(added, id, r.name)
           /\ nextID' = nextID + 1
           /\ sessions' = r.reg
           /\ tmux' = r.tmux
           /\ issued' = issued \cup {id}
           /\ last' = [op |-> "spawn", id |-> id, err |-> r.err,
                       msg |-> IF r.err THEN "Spawn error" ELSE "Spawned"]
    /\ UNCHANGED <<hook, now, pending, detectVars, file, saving, lockVars, registryVars, zoomVars>>

\* The first loop of refreshStatuses, from the i-th agent of Model.agents on.
RECURSIVE RefreshFrom(_, _, _, _, _)
RefreshFrom(i, ags, reg, env, panes) ==
    IF i > Len(ags) THEN [ags |-> ags, reg |-> reg]
    ELSE LET a == ags[i]
             r == ManagerDetectStatus(a, reg, env, panes[i])
         IN  RefreshFrom(i + 1,
                         IF r.status # a.Status
                         THEN StoreUpdate(ags, a.ID, r.status, env.now) ELSE ags,
                         r.reg, env, panes)

\* A pruning loop without grace window: every discovered DONE agent goes.
RECURSIVE PruneFromAtOnce(_, _, _, _)
PruneFromAtOnce(i, listed, ags, t) ==
    IF i > Len(listed) THEN ags
    ELSE LET a == listed[i]
         IN  PruneFromAtOnce(i + 1, listed,
                             IF a.Discovered /\ a.Status = StatusDone
                             THEN StoreRemove(ags, a.ID) ELSE ags,
                             t)

\* The second loop of refreshStatuses: Model.agents is `listed`, the Store `ags`.
RECURSIVE PruneFrom(_, _, _, _)
PruneFrom(i, listed, ags, t) ==
    IF i > Len(listed) THEN ags
    ELSE LET a == listed[i]
         IN  PruneFrom(i + 1, listed,
                       IF a.Discovered /\ a.Status = StatusDone
                          /\ t - a.StatusSince > PruneGrace
                       THEN StoreRemove(ags, a.ID) ELSE ags,
                       t)

\* A tick asks tmux about the empty target only for a discovered agent without
\* session name, and attaches a client only for an agent without handle.
AsksEmptyTarget ==
    tmux # {} /\ \E i \in 1..Len(agents) :
                     agents[i].Discovered /\ agents[i].SessionName = NoName

Reattaches ==
    \E i \in 1..Len(agents) :
        /\ ~agents[i].Discovered
        /\ agents[i].ID \notin DOMAIN sessions
        /\ agents[i].SessionName \in tmux

\* tickMsg: refreshStatuses, then Model.agents = Store.List().
Tick ==
    \E vanish \in {{}} \cup {{n} : n \in tmux},
       empty \in IF AsksEmptyTarget THEN BOOLEAN ELSE {FALSE},
       attachOk \in IF Reattaches THEN BOOLEAN ELSE {TRUE},
       panes \in [1..Len(agents) -> SamplePanes] :
        LET env == Env(tmux, vanish, empty, attachOk)
            r == RefreshFrom(1, agents, sessions, env, panes)
        IN  /\ agents' = PruneFrom(1, r.ags, r.ags, now)
            /\ sessions' = r.reg
            /\ tmux' = tmux \ vanish
            /\ last' = [op |-> "tick"]
            /\ UNCHANGED <<nextID, hook, now, pending, detectVars, saveVars, lockVars, registryVars, zoomVars>>

\* The lists Discover() can return, all backends' results appended: an entry
\* per foreign session a backend claims, and an entry without session name
\* per process it finds.
RECURSIVE SeqsUpTo(_, _)
SeqsUpTo(S, n) ==
    IF n = 0 THEN {<<>>}
    ELSE LET shorter == SeqsUpTo(S, n - 1)
         IN  shorter \cup {Append(q, x) : q \in shorter, x \in S}

FoundLists(tmx) ==
    SeqsUpTo({[SessionName |-> n] :
                 n \in {m \in tmx : ~HasManagedPrefix(m)} \cup {NoName}}, MaxFound)

\* discoverCmd: the scan runs beside the handlers; its result is a message.
discoverCmd ==
    /\ ~pending.inflight
    /\ \E found \in FoundLists(tmux) :
           /\ nextID + Unmatched(found) <= MaxAgents + 1
           /\ pending' = [inflight |-> TRUE, found |-> found]
    /\ last' = [op |-> "scan"]
    /\ UNCHANGED <<agents, nextID, sessions, tmux, hook, now, detectVars, saveVars, lockVars, registryVars, zoomVars>>

\* mergeDiscovered from the k-th entry on.  Model.agents is the first
\* `listed` agents of the Store: the agents this merge adds are not in it.
RECURSIVE MergeFrom(_, _, _, _, _, _)
MergeFrom(k, found, listed, ags, nid, t) ==
    IF k > Len(found) THEN [ags |-> ags, nid |-> nid]
    ELSE LET d == found[k]
             hits == {i \in 1..listed : ags[i].SessionName = d.SessionName}
             match == IF hits = {} THEN 0
                      ELSE CHOOSE i \in hits : \A j \in hits : i <= j
         IN  IF match # 0
             THEN MergeFrom(k + 1, found, listed,
                            IF ags[match].Status = StatusDone
                            THEN StoreUpdateDiscovered(
                                     StoreUpdate(ags, ags[match].ID, StatusRunning, t),
                                     ags[match].ID, TRUE)
                            ELSE ags,
                            nid, t)
             ELSE MergeFrom(k + 1, found, listed,
                            StoreUpdateDiscovered(
                                StoreUpdateSessionName(StoreAdd(ags, nid, t, OneName, OneDir), nid,
                                                       d.SessionName),
                                nid, TRUE),
                            nid + 1, t)

\* mergeDiscovered(found), with Model.agents listing the Store's agents.
mergeDiscovered(found, ags, nid, t) == MergeFrom(1, found, Len(ags), ags, nid, t)

\* discoverMsg: mergeDiscovered, then Model.agents = Store.List().
discoverMsg ==
    /\ pending.inflight
    /\ LET r == mergeDiscovered(pending.found, agents, nextID, now)
       IN  /\ r.nid <= MaxAgents + 1
           /\ agents' = r.ags
           /\ nextID' = r.nid
           /\ issued' = issued \cup (nextID..(r.nid - 1))
           /\ last' = [op |-> "merge"]
    /\ pending' = NoMsg
    /\ UNCHANGED <<sessions, tmux, hook, now, detectVars, file, saving, lockVars, registryVars, zoomVars>>

\* killSelected on the i-th agent of Model.agents.
killSelected(i, attachOk, killFails) ==
    /\ i \in 1..Len(agents)
    /\ LET a == agents[i]
           env == Env(tmux, {}, FALSE, attachOk)
           g == GetSession(a, sessions, env)
           byManager == g.sess # NoHandle
           byName == ~byManager /\ a.SessionName # NoName
           target == IF byManager THEN g.sess.Name ELSE a.SessionName
           k == IF killFails THEN [err |-> TRUE, tmux |-> tmux]
                ELSE TmuxKill(target, tmux)
       IN  /\ sessions' = IF byManager THEN Unregister(g.reg, a.ID) ELSE g.reg
           /\ tmux' = IF byManager \/ byName THEN k.tmux ELSE tmux
           /\ hook' = [hook EXCEPT ![a.ID] = NoFile]
           /\ agents' = StoreRemove(agents, a.ID)
           /\ last' = [op |-> "kill", id |-> a.ID, called |-> byManager \/ byName,
                       wasAlive |-> target \in tmux,
                       hadHook |-> hook[a.ID] # NoFile,
                       err |-> (byManager \/ byName) /\ k.err,
                       msg |-> "Killed"]
    /\ UNCHANGED <<nextID, now, pending, detectVars, saveVars, lockVars, registryVars, zoomVars>>

\* doSend on the i-th agent of Model.agents, with some text typed.
doSend(i, attachOk, sendFails) ==
    /\ i \in 1..Len(agents)
    /\ LET r == SendKeys(agents[i], sessions, Env(tmux, {}, FALSE, attachOk), sendFails)
       IN  /\ sessions' = r.reg
           /\ last' = [op |-> "send", id |-> agents[i].ID, err |-> r.err,
                       delivered |-> r.delivered,
                       msg |-> IF r.err THEN "Send error" ELSE "Sent to"]
    /\ UNCHANGED <<agents, nextID, tmux, hook, now, pending, detectVars, saveVars, lockVars, registryVars, zoomVars>>

\* The "c" key: Store.ClearDone, then Model.agents = Store.List().
clearDone ==
    /\ agents' = StoreClearDone(agents)
    /\ last' = [op |-> "clear"]
    /\ UNCHANGED <<nextID, sessions, tmux, hook, now, pending, detectVars, saveVars, lockVars, registryVars, zoomVars>>

\* A tmux session ends: its agent exited, or somebody killed it.
SessionExit(name) ==
    /\ name \in tmux
    /\ tmux' = tmux \ {name}
    /\ last' = [op |-> "exit"]
    /\ UNCHANGED <<agents, nextID, sessions, hook, now, pending, detectVars, saveVars, lockVars, registryVars, zoomVars>>

\* Somebody starts an agent in a tmux session of their own.
ExternalStart(name) ==
    /\ name \in ExternalNames \ tmux
    /\ tmux' = tmux \cup {name}
    /\ last' = [op |-> "start"]
    /\ UNCHANGED <<agents, nextID, sessions, hook, now, pending, detectVars, saveVars, lockVars, registryVars, zoomVars>>

\* Time passes.
Advance ==
    /\ now + PruneGrace + 1 <= MaxTime
    /\ now' = now + PruneGrace + 1
    /\ last' = [op |-> "wait"]
    /\ UNCHANGED <<agents, nextID, sessions, tmux, hook, pending, detectVars, saveVars, lockVars, registryVars, zoomVars>>

Next ==
    \/ \E outcome \in {"ok", "new-session fails", "attach fails"} : doSpawn(outcome)
    \/ Tick
    \/ discoverCmd
    \/ discoverMsg
    \/ \E i \in 1..MaxAgents, attachOk \in BOOLEAN, killFails \in BOOLEAN :
           killSelected(i, attachOk, killFails)
    \/ clearDone
    \/ \E name \in tmux : SessionExit(name)
    \/ \E name \in ExternalNames : ExternalStart(name)
    \/ Advance

Spec == Init /\ [][Next]_vars

-----------------------------------------------------------------------------
(* One agent, its hook status file and the clock *)

\* The times the clock shows: the two expiry windows and the second after each.
HookTimes == {0, RunningTTL, RunningTTL + 1, OtherTTL, OtherTTL + 1}

\* What the status file's "state" field holds: a status, or something else.
HookStates == AgentStatus \cup {"PAUSED"}

\* Agent 1 as a successful doSpawn leaves it, or as mergeDiscovered does
\* for a foreign session.
InitHook ==
    /\ \E name \in {SessionName(1)} \cup ExternalNames :
           /\ agents = <<[NewAgent(1, 0, OneName, OneDir) EXCEPT !.SessionName = name,
                                                !.Discovered = ~HasManagedPrefix(name),
                                                !.spawnedByUs = HasManagedPrefix(name)]>>
           /\ sessions = IF HasManagedPrefix(name)
                         THEN Register(<<>>, 1, Handle(name, TRUE)) ELSE <<>>
           /\ tmux = {name}
    /\ nextID = 2
    /\ hook = [id \in AgentIDs |-> NoFile]
    /\ now = 0
    /\ pending = NoMsg
    /\ last = [op |-> "init"]
    /\ DetectIdle
    /\ file = NoStateFile /\ saving = NotSaving /\ issued = {1}
    /\ LockIdle
    /\ RegistryReady
    /\ ZoomIdle

\* The hook script, run by the agent inside a managed session, writes
\* {state, ts} to the agent's status file.
HookWrite(id, state) ==
    /\ SessionName(id) \in tmux
    /\ hook' = [hook EXCEPT ![id] = JsonFile(state, now)]
    /\ last' = [op |-> "hook"]
    /\ UNCHANGED <<agents, nextID, sessions, tmux, now, pending, detectVars, saveVars, lockVars, registryVars, zoomVars>>

\* The status file holds something that is not JSON.
HookCorrupt(id) ==
    /\ SessionName(id) \in tmux
    /\ hook' = [hook EXCEPT ![id] = GarbageFile]
    /\ last' = [op |-> "hook"]
    /\ UNCHANGED <<agents, nextID, sessions, tmux, now, pending, detectVars, saveVars, lockVars, registryVars, zoomVars>>

\* Time passes, to the next time of interest.
AdvanceTo(t) ==
    /\ t > now
    /\ now' = t
    /\ last' = [op |-> "wait"]
    /\ UNCHANGED <<agents, nextID, sessions, tmux, hook, pending, detectVars, saveVars, lockVars, registryVars, zoomVars>>

NextHook ==
    \/ Tick
    \/ \E id \in AgentIDs, state \in HookStates : HookWrite(id, state)
    \/ \E id \in AgentIDs : HookCorrupt(id)
    \/ \E name \in tmux : SessionExit(name)
    \/ \E t \in HookTimes : AdvanceTo(t)

SpecHook == InitHook /\ [][NextHook]_vars

\* The same agent, its hook status file and the clock, with the kill key.
NextKill ==
    \/ NextHook
    \/ \E i \in 1..MaxAgents, attachOk \in BOOLEAN, killFails \in BOOLEAN :
           killSelected(i, attachOk, killFails)

SpecKill == InitHook /\ [][NextKill]_vars

\* The same agent, managed or discovered, with the kill key and the send key.
NextSend ==
    \/ NextKill
    \/ \E i \in 1..MaxAgents, attachOk \in BOOLEAN, sendFails \in BOOLEAN :
           doSend(i, attachOk, sendFails)

SpecSend == InitHook /\ [][NextSend]_vars

-----------------------------------------------------------------------------
(* Store.save and a process that can be killed *)

\* The keys of an Agent's JSON object that carry omitempty.
OptionalKeys == {"session_name", "discovered", "backend"}

\* The optional keys json.Marshal leaves out: those whose field is empty.
Omitted(a) ==
    {k \in OptionalKeys :
        \/ k = "session_name" /\ a.SessionName = NoName
        \/ k = "discovered" /\ ~a.Discovered
        \/ k = "backend" /\ a.BackendID = ""}

\* An Agent struct whose Dir field is not written to the document.
MarshalAgentWithoutDir(a) ==
    [id |-> a.ID, name |-> a.Name, dir |-> "", status |-> a.Status,
     status_since |-> a.StatusSince, session_name |-> a.SessionName,
     discovered |-> a.Discovered, backend |-> a.BackendID, omitted |-> Omitted(a)]

\* json.Marshal of one Agent: the JSON object, by the struct's tags.
MarshalAgent(a) ==
    [id |-> a.ID, name |-> a.Name, dir |-> a.Dir, status |-> a.Status,
     status_since |-> a.StatusSince, session_name |-> a.SessionName,
     discovered |-> a.Discovered, backend |-> a.BackendID, omitted |-> Omitted(a)]

\* json.Unmarshal of one JSON object: a key that is absent leaves the
\* field at its zero value.  No agent of a loaded Store was spawned by the
\* process that loads it.
UnmarshalAgent(o) ==
    [ID |-> o.id, Name |-> o.name, Dir |-> o.dir, Status |-> o.status,
     StatusSince |-> o.status_since,
     SessionName |-> IF "session_name" \in o.omitted THEN NoName ELSE o.session_name,
     Discovered |-> IF "discovered" \in o.omitted THEN FALSE ELSE o.discovered,
     BackendID |-> IF "backend" \in o.omitted THEN "" ELSE o.backend,
     spawnedByUs |-> FALSE]

\* A load without the migration.
MigrateNothing(a) == a

\* Store.load's migration: an empty backend tag becomes "claude".
Migrate(a) == IF a.BackendID = "" THEN [a EXCEPT !.BackendID = "claude"] ELSE a

\* Store.load on a document that parses: the agents, in the document's order.
load(body) == [i \in 1..Len(body) |-> Migrate(UnmarshalAgent(body[i]))]

\* json.MarshalIndent(StateFile{Agents: ags}): the complete document.
Marshal(ags) ==
    [exists |-> TRUE, body |-> [i \in 1..Len(ags) |-> MarshalAgent(ags[i])],
     closed |-> TRUE]

\* json.Unmarshal succeeds on a complete document only.
Parses(f) == f.exists /\ f.closed

\* os.WriteFile opens the state file itself with O_TRUNC: the file is empty
\* from then on, until the writes that follow fill it.
Truncated == [exists |-> TRUE, body |-> <<>>, closed |-> FALSE]

\* The state file once os.WriteFile has opened it.
OpenForWrite(f) == Truncated

\* A Store mutation up to the point where save has opened the file.
BeginSave(ags) ==
    /\ saving.phase = "idle"
    /\ agents' = ags
    /\ file' = OpenForWrite(file)
    /\ saving' = [phase |-> "writing", prev |-> file, data |-> ags]

\* Store.Add
SaveAdd(name, dir) ==
    /\ nextID <= MaxAgents
    /\ BeginSave(StoreAdd(agents, nextID, now, name, dir))
    /\ nextID' = nextID + 1
    /\ issued' = issued \cup {nextID}
    /\ last' = [op |-> "Add"]
    /\ UNCHANGED <<sessions, tmux, hook, now, pending, detectVars, lockVars, registryVars, zoomVars>>

\* Store.Remove: saves only when the agent is found.
SaveRemove(id) ==
    /\ IndexOf(agents, id) # 0
    /\ BeginSave(StoreRemove(agents, id))
    /\ last' = [op |-> "Remove"]
    /\ UNCHANGED <<nextID, sessions, tmux, hook, now, pending, detectVars, issued, lockVars, registryVars, zoomVars>>

\* Store.Update
SaveUpdate(id, status) ==
    /\ BeginSave(StoreUpdate(agents, id, status, now))
    /\ last' = [op |-> "Update"]
    /\ UNCHANGED <<nextID, sessions, tmux, hook, now, pending, detectVars, issued, lockVars, registryVars, zoomVars>>

\* Store.UpdateSessionName
SaveUpdateSessionName(id, name) ==
    /\ BeginSave(StoreUpdateSessionName(agents, id, name))
    /\ last' = [op |-> "UpdateSessionName"]
    /\ UNCHANGED <<nextID, sessions, tmux, hook, now, pending, detectVars, issued, lockVars, registryVars, zoomVars>>

\* Store.UpdateDiscovered
SaveUpdateDiscovered(id, d) ==
    /\ BeginSave(StoreUpdateDiscovered(agents, id, d))
    /\ last' = [op |-> "UpdateDiscovered"]
    /\ UNCHANGED <<nextID, sessions, tmux, hook, now, pending, detectVars, issued, lockVars, registryVars, zoomVars>>

\* Store.ClearDone: saves only when an agent was removed.
SaveClearDone ==
    /\ \E i \in 1..Len(agents) : agents[i].Status = StatusDone
    /\ BeginSave(StoreClearDone(agents))
    /\ last' = [op |-> "ClearDone"]
    /\ UNCHANGED <<nextID, sessions, tmux, hook, now, pending, detectVars, issued, lockVars, registryVars, zoomVars>>

\* os.WriteFile writes the next part of the document.
WriteMore ==
    /\ saving.phase = "writing"
    /\ Len(file.body) < Len(saving.data)
    /\ file' = [file EXCEPT !.body = Append(@, MarshalAgent(saving.data[Len(@) + 1]))]
    /\ last' = [op |-> "write"]
    /\ UNCHANGED <<agents, nextID, sessions, tmux, hook, now, pending, saving, detectVars, issued, lockVars, registryVars, zoomVars>>

\* os.WriteFile writes the end of the document and closes the file; save returns.
WriteEnd ==
    /\ saving.phase = "writing"
    /\ Len(file.body) = Len(saving.data)
    /\ file' = [file EXCEPT !.closed = TRUE]
    /\ saving' = NotSaving
    /\ last' = [op |-> "close"]
    /\ UNCHANGED <<agents, nextID, sessions, tmux, hook, now, pending, detectVars, issued, lockVars, registryVars, zoomVars>>

\* The process is killed.
ProcessKilled ==
    /\ saving.phase # "down"
    /\ saving' = [saving EXCEPT !.phase = "down"]
    /\ last' = [op |-> IF saving.phase = "writing" THEN "killed in save" ELSE "killed"]
    /\ UNCHANGED <<agents, nextID, sessions, tmux, hook, now, pending, file, detectVars, issued, lockVars, registryVars, zoomVars>>

\* A NewStore that starts every process at ID 1, whatever it loaded.
NextIDAfterFresh(ags, i, n) == n

\* Store.nextID after NewStore: one more than the largest ID loaded.
RECURSIVE NextIDAfter(_, _, _)
NextIDAfter(ags, i, n) ==
    IF i > Len(ags) THEN n
    ELSE NextIDAfter(ags, i + 1, IF ags[i].ID >= n THEN ags[i].ID + 1 ELSE n)

\* The errors NewStore returns; the program does not start.
StartupErrors == {"create state dir", "load state", "load state: parse state"}

\* NewStore in a new process.  mkdirOk: os.MkdirAll creates or finds the
\* state directory; it fails only where no state file can be seen.  readable:
\* os.ReadFile can read a file that exists.  A missing file is an empty
\* Store; a directory that cannot be created, a file that cannot be read and
\* a file that does not parse are errors.
NewStore(mkdirOk, readable) ==
    /\ saving.phase = "down"
    /\ mkdirOk \/ ~file.exists
    /\ readable \/ file.exists
    /\ IF ~mkdirOk
       THEN last' = [op |-> "create state dir"] /\ UNCHANGED <<agents, nextID, saving>>
       ELSE IF ~file.exists
       THEN agents' = <<>> /\ nextID' = 1 /\ saving' = NotSaving
                           /\ last' = [op |-> "NewStore"]
       ELSE IF ~readable
       THEN last' = [op |-> "load state"] /\ UNCHANGED <<agents, nextID, saving>>
       ELSE IF Parses(file)
       THEN agents' = load(file.body) /\ nextID' = NextIDAfter(load(file.body), 1, 1)
                                /\ saving' = NotSaving /\ last' = [op |-> "NewStore"]
       ELSE last' = [op |-> "load state: parse state"]
                /\ UNCHANGED <<agents, nextID, saving>>
    /\ UNCHANGED <<sessions, tmux, hook, now, pending, file, detectVars, issued, lockVars, registryVars, zoomVars>>

NextSave ==
    \/ SaveAdd(OneName, OneDir)
    \/ \E id \in AgentIDs : SaveRemove(id)
    \/ \E id \in AgentIDs, status \in AgentStatus : SaveUpdate(id, status)
    \/ \E id \in AgentIDs : SaveUpdateSessionName(id, SessionName(id))
    \/ \E id \in AgentIDs, d \in BOOLEAN : SaveUpdateDiscovered(id, d)
    \/ SaveClearDone
    \/ WriteMore
    \/ WriteEnd
    \/ ProcessKilled
    \/ NewStore(TRUE, TRUE)

SpecSave == Init /\ [][NextSave]_vars

\* The Store's operations with time passing between them.
NextStore == NextSave \/ Advance

SpecStore == Init /\ [][NextStore]_vars

\* Agents added under any name and directory, the process stopping and a
\* new process loading the state file.
NextPersist ==
    \/ \E name \in Names, dir \in Dirs : SaveAdd(name, dir)
    \/ WriteMore
    \/ WriteEnd
    \/ ProcessKilled
    \/ NewStore(TRUE, TRUE)

SpecPersist == Init /\ [][NextPersist]_vars

\* The backend tags of the records of a state file: none (a file written
\* before backends existed), the default backend's, another backend's.
FileTags == {"", "claude", "gemini"}

\* A document holding the agents 1..Len(tags), agent i with the tag tags[i].
Document(tags) ==
    Marshal([i \in 1..Len(tags) |->
                [NewAgent(i, 0, OneName, OneDir) EXCEPT !.BackendID = tags[i]]])

\* What a starting program can find at the state file's path: nothing, a
\* complete document, a document cut short.
StartupFiles ==
    {NoStateFile, Truncated} \cup {Document(tags) : tags \in SeqsUpTo(FileTags, MaxAgents)}

\* No process is running, and the state file is one an earlier run left.
InitStartup ==
    /\ file \in StartupFiles
    /\ saving = [NotSaving EXCEPT !.phase = "down"]
    /\ issued = {file.body[i].id : i \in 1..Len(file.body)}
    /\ agents = <<>>
    /\ nextID = 1
    /\ sessions = <<>>
    /\ tmux = {}
    /\ hook = [id \in AgentIDs |-> NoFile]
    /\ now = 0
    /\ pending = NoMsg
    /\ last = [op |-> "init"]
    /\ DetectIdle
    /\ LockIdle
    /\ RegistryReady
    /\ ZoomIdle

\* The program starts, adds agents, stops and starts again.
NextStartup ==
    \/ \E mkdirOk \in BOOLEAN, readable \in BOOLEAN : NewStore(mkdirOk, readable)
    \/ SaveAdd(OneName, OneDir)
    \/ WriteMore
    \/ WriteEnd
    \/ ProcessKilled

SpecStartup == InitStartup /\ [][NextStartup]_vars

-----------------------------------------------------------------------------
(* The classifier on bounded panes *)

\* The lines a pane is built from.
PaneLines ==
    { <<>>,
      <<" ">>,
      <<"Processing files">>,
      <<"esc to interrupt">>,
      <<"esc to cancel">>,
      <<"U+273B", "U+2026">>,
      <<"Allow once">>,
      <<"y/n">>,
      <<"U+276F", " ">>,
      <<"Type your message">>,
      <<"tokens used">>,
      <<"ESC[0m", ">">>,
      <<"Goodbye!">>,
      <<" ", "exited">> }

\* How far below its window size a pane's filler may stay.
MaxSlack == 3

Window(b) ==
    CASE b = "claude" -> ClaudeWindow
      [] b = "gemini" -> GeminiWindow
      [] b = "codex" -> CodexWindow

\* The numbers of filler lines tried: none, and the few around the point where
\* the top line leaves the window.
FillCounts(b) == {0} \cup {Window(b) - d : d \in 1..MaxSlack}

Filler(k) == [i \in 1..k |-> <<"Processing files">>]

\* A pane: a top line, k filler lines, two bottom lines.
Panes(b) ==
    { <<top>> \o Filler(k) \o <<l2, l1>> :
        top \in PaneLines, k \in FillCounts(b), l2 \in PaneLines, l1 \in PaneLines }

\* The short panes: strings.Split returns at least one line, the empty line
\* for an empty pane.
MaxShort == 2

ShortPanes == SeqsUpTo(PaneLines, MaxShort) \ {<<>>}

\* The dashboard's state while only the classifier runs.
MainIdle ==
    /\ agents = <<>>
    /\ nextID = 1
    /\ sessions = <<>>
    /\ tmux = {}
    /\ hook = [id \in AgentIDs |-> NoFile]
    /\ now = 0
    /\ pending = NoMsg
    /\ last = [op |-> "init"]

InitDetect ==
    /\ backendID \in BackendIDs
    /\ content \in Panes(backendID) \cup ShortPanes
    /\ detected = "none"
    /\ waiting = FALSE /\ stripped = NotStripped
    /\ MainIdle
    /\ SaveIdle
    /\ LockIdle
    /\ RegistryReady
    /\ ZoomIdle

\* One call of agent.Backend().DetectStatus(content).
Classify ==
    /\ detected = "none"
    /\ detected' = BackendDetectStatus(backendID, content)
    /\ UNCHANGED <<backendID, content, waiting, stripped>>
    /\ UNCHANGED <<mainVars, saveVars, lockVars, registryVars, zoomVars>>

NextDetect == Classify

SpecDetect == InitDetect /\ [][NextDetect]_vars

-----------------------------------------------------------------------------
(* Backend.StripChrome on bounded lists of lines *)

\* The bytes of a token of a rule line: "-" is one byte, U+2500 three.
RuleBytes(t) == IF t = "-" THEN 1 ELSE 3

RECURSIVE ByteLen(_)
ByteLen(line) == IF line = <<>> THEN 0 ELSE RuleBytes(Head(line)) + ByteLen(Tail(line))

\* The shortest string isSeparatorLine accepts, in bytes.
MinRuleBytes == 10

\* isSeparatorLine(s): at least MinRuleBytes bytes, all of them rule characters.
isSeparatorLine(line) ==
    /\ \A i \in DOMAIN line : line[i] \in {"-", "U+2500"}
    /\ ByteLen(line) >= MinRuleBytes

\* strings.HasPrefix(stripped, the prompt glyph)
IsPromptLine(line) ==
    LET t == TrimSpace(stripAnsiStr(line)) IN t # <<>> /\ Head(t) = "U+276F"

IsRuleLine(line) == isSeparatorLine(TrimSpace(stripAnsiStr(line)))

\* The largest index in 1..n whose line satisfies Test, 0 when there is none.
LastIndex(lines, n, Test(_)) ==
    LET hits == {i \in 1..n : Test(lines[i])}
    IN  IF hits = {} THEN 0 ELSE CHOOSE i \in hits : \A j \in hits : j <= i

\* A strip that cuts the last line off whether or not there is a prompt line.
claudeStripChromeLinesCutsLast(lines) ==
    IF lines = <<>> THEN lines ELSE SubSeq(lines, 1, Len(lines) - 1)

\* claudeStripChromeLines: cut at the separator above the last prompt line,
\* else at the prompt line; without prompt line the lines as they are.
claudeStripChromeLines(lines) ==
    LET promptIdx == LastIndex(lines, Len(lines), IsPromptLine)
    IN  IF promptIdx = 0 THEN lines
        ELSE LET sep == LastIndex(lines, promptIdx - 1, IsRuleLine)
             IN  IF sep # 0 THEN SubSeq(lines, 1, sep - 1)
                 ELSE SubSeq(lines, 1, promptIdx - 1)

IsNonBlankLine(line) == TrimSpace(stripAnsiStr(line)) # <<>>

\* claudeStripWaitingChrome: the separator lines are dropped, then the last
\* non-blank line of what is left.
claudeStripWaitingChrome(lines) ==
    LET filtered == SelectSeq(lines, LAMBDA l : ~IsRuleLine(l))
        k == LastIndex(filtered, Len(filtered), IsNonBlankLine)
    IN  IF k = 0 THEN filtered
        ELSE SubSeq(filtered, 1, k - 1) \o SubSeq(filtered, k + 1, Len(filtered))

\* Backend.StripChrome: Claude's strips, Gemini's and Codex's return the lines.
StripChrome(b, lines, isWaiting) ==
    IF b = "claude"
    THEN IF isWaiting THEN claudeStripWaitingChrome(lines) ELSE claudeStripChromeLines(lines)
    ELSE lines

\* The lines a preview is built from: text, blank, prompt, rules long and short.
StripLines ==
    { <<>>,
      <<"Processing files">>,
      <<"ESC[0m", " ">>,
      <<"U+276F", " ">>,
      <<"U+2500", "U+2500", "U+2500", "U+2500">>,
      <<"-", "-", "-">> }

\* How many lines a list handed to StripChrome has at most.
MaxLines == 3

StripInputs == SeqsUpTo(StripLines, MaxLines)

InitStrip ==
    /\ backendID \in BackendIDs
    /\ waiting \in BOOLEAN
    /\ content \in StripInputs
    /\ detected = "none"
    /\ stripped = NotStripped
    /\ MainIdle
    /\ SaveIdle
    /\ LockIdle
    /\ RegistryReady
    /\ ZoomIdle

\* One call of agent.Backend().StripChrome(lines, waiting).
Strip ==
    /\ ~stripped.done
    /\ stripped' = [done |-> TRUE, lines |-> StripChrome(backendID, content, waiting)]
    /\ UNCHANGED <<backendID, content, detected, waiting>>
    /\ UNCHANGED <<mainVars, saveVars, lockVars, registryVars, zoomVars>>

NextStrip == Strip

SpecStrip == InitStrip /\ [][NextStrip]_vars

-----------------------------------------------------------------------------
(* Discover(), computed from the sessions and the processes of the machine *)

\* What runs in a pane or as a process: a backend's CLI, or a shell.
Commands == BackendIDs \cup {"zsh"}

NoProcess == [cmd |-> "", inside |-> NoName]

\* The process table: the command of every managed session (SpawnCommand of
\* the default backend: all agents here have it), the command of every
\* foreign pane, and the agent CLIs running outside tmux (inside = NoName).
Processes(tmx, paneCmd, bare) ==
    {[cmd |-> DefaultBackendID, inside |-> n] : n \in {m \in tmx : HasManagedPrefix(m)}}
    \cup {[cmd |-> paneCmd[n], inside |-> n] : n \in DOMAIN paneCmd}
    \cup {[cmd |-> c, inside |-> NoName] : c \in bare}

\* A DiscoveredAgent: SessionName, and PID standing for the process it names.
DiscoveredAgent(name, proc) == [SessionName |-> name, PID |-> proc]

\* A set as a list, in some order.
RECURSIVE ListOf(_)
ListOf(S) ==
    IF S = {} THEN <<>>
    ELSE LET x == CHOOSE y \in S : TRUE IN <<x>> \o ListOf(S \ {x})

\* discoverTmux of backend b over the panes tmux lists: sessions with the
\* managed prefix are skipped, a session is taken when its pane command
\* contains the backend's name or its content looks like the backend.
RECURSIVE discoverTmuxFrom(_, _, _, _, _)
discoverTmuxFrom(k, panes, b, paneCmd, looks) ==
    IF k > Len(panes) THEN <<>>
    ELSE LET sessName == panes[k]
             rest == discoverTmuxFrom(k + 1, panes, b, paneCmd, looks)
         IN  IF HasManagedPrefix(sessName) THEN rest
             ELSE IF paneCmd[sessName] = b \/ b \in looks[sessName]
             THEN <<DiscoveredAgent(sessName, NoProcess)>> \o rest
             ELSE rest

discoverTmux(b, tmx, paneCmd, looks) ==
    discoverTmuxFrom(1, ListOf(tmx), b, paneCmd, looks)

\* discoverProcesses of backend b: every process pgrep -af finds whose
\* command line contains the backend's name, wherever it runs.
RECURSIVE discoverProcessesFrom(_, _, _)
discoverProcessesFrom(k, lines, b) ==
    IF k > Len(lines) THEN <<>>
    ELSE (IF lines[k].cmd = b THEN <<DiscoveredAgent(NoName, lines[k])>> ELSE <<>>)
         \o discoverProcessesFrom(k + 1, lines, b)

discoverProcesses(b, procs) == discoverProcessesFrom(1, ListOf(procs), b)

\* Backend.Discover
Discover(b, tmx, paneCmd, looks, procs) ==
    discoverTmux(b, tmx, paneCmd, looks) \o discoverProcesses(b, procs)

\* AllBackends() ranges over a map: the backends come in any order.
BackendOrders ==
    {q \in [1..Cardinality(BackendIDs) -> BackendIDs] :
        \A i, j \in DOMAIN q : q[i] = q[j] => i = j}

RECURSIVE DiscoverAll(_, _, _, _, _, _)
DiscoverAll(k, order, tmx, paneCmd, looks, procs) ==
    IF k > Len(order) THEN <<>>
    ELSE Discover(order[k], tmx, paneCmd, looks, procs)
         \o DiscoverAll(k + 1, order, tmx, paneCmd, looks, procs)

\* discoverCmd on a machine whose foreign panes run paneCmd and show what
\* `looks` says, and where the agent CLIs in `bare` run outside tmux.
discoverScan ==
    /\ ~pending.inflight
    /\ LET foreign == {n \in tmux : ~HasManagedPrefix(n)}
       IN  \E paneCmd \in [foreign -> Commands], looks \in [foreign -> SUBSET BackendIDs],
              bare \in SUBSET {DefaultBackendID}, order \in BackendOrders :
               LET found == DiscoverAll(1, order, tmux, paneCmd, looks,
                                        Processes(tmux, paneCmd, bare))
               IN  /\ nextID + Unmatched(found) <= MaxAgents + 1
                   /\ pending' = [inflight |-> TRUE, found |-> found]
    /\ last' = [op |-> "scan"]
    /\ UNCHANGED <<agents, nextID, sessions, tmux, hook, now, detectVars, saveVars, lockVars, registryVars, zoomVars>>

NextDiscover ==
    \/ \E outcome \in {"ok", "new-session fails", "attach fails"} : doSpawn(outcome)
    \/ discoverScan
    \/ discoverMsg
    \/ \E i \in 1..MaxAgents, attachOk \in BOOLEAN, killFails \in BOOLEAN :
           killSelected(i, attachOk, killFails)
    \/ Tick
    \/ \E name \in tmux : SessionExit(name)
    \/ \E name \in ExternalNames : ExternalStart(name)

SpecDiscover == Init /\ [][NextDiscover]_vars

-----------------------------------------------------------------------------
(* The AgentManager over runs of the program: quit and start again *)

\* The program quits: runTUI calls CloseAll and the process ends.  The tmux
\* sessions are left as they are.
Quit ==
    /\ saving.phase = "idle"
    /\ sessions' = CloseAll(sessions)
    /\ saving' = [saving EXCEPT !.phase = "down"]
    /\ last' = [op |-> "closeAll"]
    /\ UNCHANGED <<agents, nextID, tmux, hook, now, pending, file, issued,
                   detectVars, lockVars, registryVars, zoomVars>>

\* runTUI in a new process: NewStore loads the agents the last save wrote,
\* NewAgentManager starts with an empty registry.
runTUI ==
    /\ saving.phase = "down"
    /\ sessions' = <<>>
    /\ nextID' = NextIDAfter(agents, 1, 1)
    /\ saving' = NotSaving
    /\ last' = [op |-> "start"]
    /\ UNCHANGED <<agents, tmux, hook, now, pending, file, issued, detectVars, lockVars, registryVars, zoomVars>>

NextManager ==
    \/ /\ saving.phase = "idle"
       /\ \/ \E outcome \in {"ok", "new-session fails", "attach fails"} : doSpawn(outcome)
          \/ \E i \in 1..MaxAgents, attachOk \in BOOLEAN, sendFails \in BOOLEAN :
                 doSend(i, attachOk, sendFails)
          \/ \E i \in 1..MaxAgents, attachOk \in BOOLEAN, killFails \in BOOLEAN :
                 killSelected(i, attachOk, killFails)
    \/ \E name \in tmux : SessionExit(name)
    \/ Quit
    \/ runTUI

SpecManager == Init /\ [][NextManager]_vars

\* Runs of the program in which agents leave the Store by the kill key, by
\* the clear key and by the pruning pass, while the hook scripts write.
\* Every tmux command of spawn and kill succeeds.
NextReuse ==
    \/ /\ saving.phase = "idle"
       /\ \/ doSpawn("ok")
          \/ Tick
          \/ clearDone
          \/ \E i \in 1..MaxAgents : killSelected(i, TRUE, FALSE)
    \/ \E id \in AgentIDs, state \in {StatusWaiting, StatusDone} : HookWrite(id, state)
    \/ \E name \in tmux : SessionExit(name)
    \/ Quit
    \/ runTUI

SpecReuse == Init /\ [][NextReuse]_vars

-----------------------------------------------------------------------------
(* AgentManager.mu, step by step *)

\* The steps of a call: "Lock", "Unlock", "RLock", "RUnlock" on m.mu, "map" for
\* a read or write of m.sessions, "exec" for a tmux subprocess, "pty" for an
\* operation on a session's client file.

\* attachPty: tmux set-option, the client started on a pty, tmux resize-window.
AttachPtySteps == <<"exec", "pty", "exec">>

\* GetSession, by the path it takes.
GetSessionSteps(path) ==
    <<"RLock", "map", "RUnlock">> \o
    CASE path = "registered" -> <<>>
      [] path = "no name" -> <<>>
      [] path = "dead" -> <<"exec">>
      [] path = "reconstructed" -> <<"exec">> \o AttachPtySteps \o <<"Lock", "map", "Unlock">>

GetSessionPaths == {"registered", "no name", "dead", "reconstructed"}

\* SpawnAgent and RespawnAgent: CreateSession, then the handle is registered.
SpawnAgentSteps(created) ==
    <<"exec">> \o AttachPtySteps \o
    (IF created THEN <<"Lock", "map", "Unlock">> ELSE <<"exec">>)

\* Kill: the handle is taken out of the map, then TmuxSession.Kill.
KillSteps(registered) ==
    <<"Lock", "map">> \o (IF registered THEN <<"map">> ELSE <<>>) \o <<"Unlock">> \o
    (IF registered THEN <<"pty", "exec">> ELSE <<>>)

\* DetectStatus of a spawned agent without hook status: GetSession, IsAlive,
\* CapturePaneContent.
DetectStatusSteps(path) ==
    GetSessionSteps(path) \o
    (IF path \in {"registered", "reconstructed"} THEN <<"exec", "exec">> ELSE <<>>)

\* SendKeys: GetSession, then tmux send-keys.
SendKeysSteps(path) ==
    GetSessionSteps(path) \o
    (IF path \in {"registered", "reconstructed"} THEN <<"exec">> ELSE <<>>)

\* CloseAll over a registry of n handles with an open client: closePty closes
\* each client file, and the unlock is deferred to the return.
RECURSIVE CloseAllLoop(_)
CloseAllLoop(n) == IF n = 0 THEN <<>> ELSE <<"map", "pty">> \o CloseAllLoop(n - 1)

CloseAllSteps(n) == <<"Lock">> \o CloseAllLoop(n) \o <<"Unlock">>

Calls ==
    {[op |-> "spawn", steps |-> SpawnAgentSteps(c), pc |-> 1] : c \in BOOLEAN}
    \cup {[op |-> "respawn", steps |-> SpawnAgentSteps(c), pc |-> 1] : c \in BOOLEAN}
    \cup {[op |-> "kill", steps |-> KillSteps(r), pc |-> 1] : r \in BOOLEAN}
    \cup {[op |-> "getSession", steps |-> GetSessionSteps(q), pc |-> 1] : q \in GetSessionPaths}
    \cup {[op |-> "detectStatus", steps |-> DetectStatusSteps(q), pc |-> 1] : q \in GetSessionPaths}
    \cup {[op |-> "sendKeys", steps |-> SendKeysSteps(q), pc |-> 1] : q \in GetSessionPaths}
    \cup {[op |-> "closeAll", steps |-> CloseAllSteps(n), pc |-> 1] : n \in 0..MaxAgents}

\* The step goroutine g is at, "return" past the last one.
StepOf(g) ==
    IF threads[g].pc > Len(threads[g].steps) THEN "return"
    ELSE threads[g].steps[threads[g].pc]

Advanced(g) == [threads EXCEPT ![g].pc = @ + 1]

Holds(g) == mu.writer = g \/ g \in mu.readers

\* A goroutine enters a call of the AgentManager.
Call(g, c) ==
    /\ threads[g] = NoCall
    /\ threads' = [threads EXCEPT ![g] = c]
    /\ UNCHANGED <<mu, heap, mainVars, detectVars, saveVars, registryVars, zoomVars>>

\* sync.RWMutex: Lock waits for the writer and the readers, RLock for the writer.
Acquire(g) ==
    /\ \/ /\ StepOf(g) = "Lock"
          /\ mu.writer = "none" /\ mu.readers = {}
          /\ mu' = [mu EXCEPT !.writer = g]
       \/ /\ StepOf(g) = "RLock"
          /\ mu.writer = "none"
          /\ mu' = [mu EXCEPT !.readers = @ \cup {g}]
    /\ threads' = Advanced(g)
    /\ UNCHANGED <<heap, mainVars, detectVars, saveVars, registryVars, zoomVars>>

Release(g) ==
    /\ \/ StepOf(g) = "Unlock" /\ mu' = [mu EXCEPT !.writer = "none"]
       \/ StepOf(g) = "RUnlock" /\ mu' = [mu EXCEPT !.readers = @ \ {g}]
    /\ threads' = Advanced(g)
    /\ UNCHANGED <<heap, mainVars, detectVars, saveVars, registryVars, zoomVars>>

\* A map access, a subprocess or a client file operation runs to its end.
Work(g) ==
    /\ StepOf(g) \in {"map", "exec", "pty"}
    /\ threads' = Advanced(g)
    /\ UNCHANGED <<mu, heap, mainVars, detectVars, saveVars, registryVars, zoomVars>>

Return(g) ==
    /\ threads[g] # NoCall
    /\ StepOf(g) = "return"
    /\ threads' = [threads EXCEPT ![g] = NoCall]
    /\ UNCHANGED <<mu, heap, mainVars, detectVars, saveVars, registryVars, zoomVars>>

NextLock ==
    \E g \in Goroutines :
        \/ \E c \in Calls : Call(g, c)
        \/ Acquire(g)
        \/ Release(g)
        \/ Work(g)
        \/ Return(g)

SpecLock == Init /\ [][NextLock]_vars


-----------------------------------------------------------------------------
(* The AgentManager's calls on one agent, step by step, with their data *)

\* In SpecRace a handle is a pointer: `heap` holds the TmuxSession objects,
\* `sessions` and the calls' local variables hold addresses into it, and
\* address 0 is nil.  Every critical section of m.mu but CloseAll's is one
\* step, taken while no goroutine holds the lock.

\* The agent the calls are about, and the name of its session.
RaceID == 1

RaceName == SessionName(RaceID)

\* How many TmuxSession objects with a client a run allocates at most.
MaxHandles == 2

RaceOps == {"SpawnAgent", "RespawnAgent", "GetSession", "Kill", "CloseAll"}

\* A goroutine in no call.
NotCalling == [op |-> "none", pc |-> "", sess |-> 0]

\* The first step of each call.
EntryOf(op) ==
    CASE op \in {"SpawnAgent", "RespawnAgent"} -> "new-session"
      [] op = "GetSession" -> "read"
      [] op = "Kill" -> "take"
      [] op = "CloseAll" -> "Lock"

\* A process that loaded the agent from the state file: the agent may carry
\* the session name of an earlier run, the session may be alive, and the
\* registry is empty.
InitRace ==
    /\ \E named \in BOOLEAN, alive \in BOOLEAN :
           /\ alive => named
           /\ agents = <<[NewAgent(RaceID, 0, OneName, OneDir) EXCEPT
                              !.SessionName = IF named THEN RaceName ELSE NoName]>>
           /\ tmux = IF alive THEN {RaceName} ELSE {}
    /\ nextID = 2
    /\ sessions = <<>>
    /\ hook = [id \in AgentIDs |-> NoFile]
    /\ now = 0
    /\ pending = NoMsg
    /\ last = [op |-> "init"]
    /\ DetectIdle
    /\ SaveIdle
    /\ RegistryReady
    /\ ZoomIdle
    /\ mu = [writer |-> "none", readers |-> {}]
    /\ threads = [g \in Goroutines |-> NotCalling]
    /\ heap = <<>>

At(g, op, pc) == threads[g].op = op /\ threads[g].pc = pc

Goes(g, pc) == [threads EXCEPT ![g].pc = pc]

Returns(g) == [threads EXCEPT ![g] = NotCalling]

\* What the step leaves in `last`: the call, its goroutine, whether it returned.
Did(g, returned) == [op |-> threads[g].op, g |-> g, returned |-> returned]

MuFree == mu.writer = "none" /\ mu.readers = {}

\* A goroutine enters a call on the agent.
Begin(g, op) ==
    /\ threads[g] = NotCalling
    /\ threads' = [threads EXCEPT ![g] = [op |-> op, pc |-> EntryOf(op), sess |-> 0]]
    /\ last' = [op |-> op, g |-> g, returned |-> FALSE]
    /\ UNCHANGED <<agents, nextID, sessions, tmux, hook, now, pending, mu, heap,
                   detectVars, saveVars, registryVars, zoomVars>>

\* CreateSession: tmux new-session, which refuses a name that is taken.
CreateNew(g) ==
    /\ threads[g].op \in {"SpawnAgent", "RespawnAgent"} /\ threads[g].pc = "new-session"
    /\ IF RaceName \in tmux
       THEN threads' = Returns(g) /\ last' = Did(g, TRUE) /\ UNCHANGED tmux
       ELSE /\ tmux' = tmux \cup {RaceName}
            /\ threads' = Goes(g, "attach")
            /\ last' = Did(g, FALSE)
    /\ UNCHANGED <<agents, nextID, sessions, hook, now, pending, mu, heap,
                   detectVars, saveVars, registryVars, zoomVars>>

\* CreateSession: attachPty on the new object; when it fails the session is
\* killed again and the call returns the error.
CreateAttach(g, ok) ==
    /\ threads[g].op \in {"SpawnAgent", "RespawnAgent"} /\ threads[g].pc = "attach"
    /\ IF ok
       THEN /\ Len(heap) < MaxHandles
            /\ heap' = Append(heap, Handle(RaceName, TRUE))
            /\ threads' = [threads EXCEPT ![g].pc = "register", ![g].sess = Len(heap) + 1]
            /\ last' = Did(g, FALSE)
            /\ UNCHANGED tmux
       ELSE /\ tmux' = tmux \ {RaceName}
            /\ threads' = Returns(g)
            /\ last' = Did(g, TRUE)
            /\ UNCHANGED heap
    /\ UNCHANGED <<agents, nextID, sessions, hook, now, pending, mu,
                   detectVars, saveVars, registryVars, zoomVars>>

\* SpawnAgent and RespawnAgent: m.sessions[agent.ID] = sess under the lock,
\* then agent.SessionName = sessName.
CreateRegister(g) ==
    /\ threads[g].op \in {"SpawnAgent", "RespawnAgent"} /\ threads[g].pc = "register"
    /\ MuFree
    /\ sessions' = Register(sessions, RaceID, threads[g].sess)
    /\ agents' = StoreUpdateSessionName(agents, RaceID, RaceName)
    /\ threads' = Returns(g)
    /\ last' = Did(g, TRUE)
    /\ UNCHANGED <<nextID, tmux, hook, now, pending, mu, heap,
                   detectVars, saveVars, registryVars, zoomVars>>

\* GetSession: the registry is read under the read lock; a registered handle
\* is returned, and so is nil for an agent without session name.
GetSessionRead(g) ==
    /\ At(g, "GetSession", "read")
    /\ mu.writer = "none"
    /\ IF RaceID \in DOMAIN sessions \/ agents[1].SessionName = NoName
       THEN threads' = Returns(g) /\ last' = Did(g, TRUE)
       ELSE threads' = Goes(g, "IsAlive") /\ last' = Did(g, FALSE)
    /\ UNCHANGED <<agents, nextID, sessions, tmux, hook, now, pending, mu, heap,
                   detectVars, saveVars, registryVars, zoomVars>>

\* GetSession: sess = &TmuxSession{Name}; sess.IsAlive().  The object is
\* entered in `heap` only when the session is alive: otherwise nothing keeps it.
GetSessionIsAlive(g) ==
    /\ At(g, "GetSession", "IsAlive")
    /\ IF agents[1].SessionName \in tmux
       THEN /\ Len(heap) < MaxHandles
            /\ heap' = Append(heap, Handle(agents[1].SessionName, FALSE))
            /\ threads' = [threads EXCEPT ![g].pc = "attachPty", ![g].sess = Len(heap) + 1]
            /\ last' = Did(g, FALSE)
       ELSE threads' = Returns(g) /\ last' = Did(g, TRUE) /\ UNCHANGED heap
    /\ UNCHANGED <<agents, nextID, sessions, tmux, hook, now, pending, mu,
                   detectVars, saveVars, registryVars, zoomVars>>

\* GetSession: _ = sess.attachPty().  pty.StartWithSize starts the client
\* whether or not the session still exists; ok is whether it could start it.
GetSessionAttach(g, ok) ==
    /\ At(g, "GetSession", "attachPty")
    /\ heap' = [heap EXCEPT ![threads[g].sess].ptmx = ok]
    /\ threads' = Goes(g, "register")
    /\ last' = Did(g, FALSE)
    /\ UNCHANGED <<agents, nextID, sessions, tmux, hook, now, pending, mu,
                   detectVars, saveVars, registryVars, zoomVars>>

\* GetSession: m.sessions[agent.ID] = sess under the lock; sess is returned.
GetSessionRegister(g) ==
    /\ At(g, "GetSession", "register")
    /\ MuFree
    /\ sessions' = Register(sessions, RaceID, threads[g].sess)
    /\ threads' = Returns(g)
    /\ last' = Did(g, TRUE)
    /\ UNCHANGED <<agents, nextID, tmux, hook, now, pending, mu, heap,
                   detectVars, saveVars, registryVars, zoomVars>>

\* Kill: under the lock the entry is read and deleted; without entry Kill
\* returns nil.
KillTake(g) ==
    /\ At(g, "Kill", "take")
    /\ MuFree
    /\ IF RaceID \in DOMAIN sessions
       THEN /\ sessions' = Unregister(sessions, RaceID)
            /\ threads' = [threads EXCEPT ![g].pc = "closePty", ![g].sess = sessions[RaceID]]
            /\ last' = Did(g, FALSE)
       ELSE threads' = Returns(g) /\ last' = Did(g, TRUE) /\ UNCHANGED sessions
    /\ UNCHANGED <<agents, nextID, tmux, hook, now, pending, mu, heap,
                   detectVars, saveVars, registryVars, zoomVars>>

\* Kill: sess.Kill() closes the client of the handle it took.
KillClosePty(g) ==
    /\ At(g, "Kill", "closePty")
    /\ heap' = [heap EXCEPT ![threads[g].sess] = closePty(@)]
    /\ threads' = Goes(g, "kill-session")
    /\ last' = Did(g, FALSE)
    /\ UNCHANGED <<agents, nextID, sessions, tmux, hook, now, pending, mu,
                   detectVars, saveVars, registryVars, zoomVars>>

\* Kill: sess.Kill() runs tmux kill-session, and Kill returns.
KillSession(g) ==
    /\ At(g, "Kill", "kill-session")
    /\ tmux' = tmux \ {heap[threads[g].sess].Name}
    /\ threads' = Returns(g)
    /\ last' = Did(g, TRUE)
    /\ UNCHANGED <<agents, nextID, sessions, hook, now, pending, mu, heap,
                   detectVars, saveVars, registryVars, zoomVars>>

\* CloseAll takes the lock.
CloseAllLock(g) ==
    /\ At(g, "CloseAll", "Lock")
    /\ MuFree
    /\ mu' = [mu EXCEPT !.writer = g]
    /\ threads' = Goes(g, "closePty")
    /\ last' = Did(g, FALSE)
    /\ UNCHANGED <<agents, nextID, sessions, tmux, hook, now, pending, heap,
                   detectVars, saveVars, registryVars, zoomVars>>

\* CloseAll closes the client of every registered handle, the lock held.
CloseAllClose(g) ==
    /\ At(g, "CloseAll", "closePty")
    /\ heap' = [h \in DOMAIN heap |->
                   IF \E id \in DOMAIN sessions : sessions[id] = h
                   THEN closePty(heap[h]) ELSE heap[h]]
    /\ threads' = Goes(g, "Unlock")
    /\ last' = Did(g, FALSE)
    /\ UNCHANGED <<agents, nextID, sessions, tmux, hook, now, pending, mu,
                   detectVars, saveVars, registryVars, zoomVars>>

\* CloseAll releases the lock and returns.
CloseAllUnlock(g) ==
    /\ At(g, "CloseAll", "Unlock")
    /\ mu' = [mu EXCEPT !.writer = "none"]
    /\ threads' = Returns(g)
    /\ last' = Did(g, TRUE)
    /\ UNCHANGED <<agents, nextID, sessions, tmux, hook, now, pending, heap,
                   detectVars, saveVars, registryVars, zoomVars>>

NextRace ==
    \/ \E g \in Goroutines, op \in RaceOps : Begin(g, op)
    \/ \E g \in Goroutines : CreateNew(g)
    \/ \E g \in Goroutines, ok \in BOOLEAN : CreateAttach(g, ok)
    \/ \E g \in Goroutines : CreateRegister(g)
    \/ \E g \in Goroutines : GetSessionRead(g)
    \/ \E g \in Goroutines : GetSessionIsAlive(g)
    \/ \E g \in Goroutines, ok \in BOOLEAN : GetSessionAttach(g, ok)
    \/ \E g \in Goroutines : GetSessionRegister(g)
    \/ \E g \in Goroutines : KillTake(g)
    \/ \E g \in Goroutines : KillClosePty(g)
    \/ \E g \in Goroutines : KillSession(g)
    \/ \E g \in Goroutines : CloseAllLock(g)
    \/ \E g \in Goroutines : CloseAllClose(g)
    \/ \E g \in Goroutines : CloseAllUnlock(g)
    \/ SessionExit(RaceName)

SpecRace == InitRace /\ [][NextRace]_vars

-----------------------------------------------------------------------------
(* The backend registry *)

\* A registry whose default is the backend registered last.
DefaultAfterLastWins(current, id) == id

\* RegisterBackend's defaultID: set by the first registration only.
DefaultAfter(current, id) == IF current = "" THEN id ELSE current

\* How many RegisterBackend calls a run makes at most.
MaxRegistrations == 4

\* Before the package's init functions: nothing is registered.
InitRegistry ==
    /\ MainIdle
    /\ DetectIdle
    /\ SaveIdle
    /\ LockIdle
    /\ ZoomIdle
    /\ backends = {}
    /\ defaultID = ""
    /\ registrations = <<>>

\* RegisterBackend(b), b.ID() = id.
RegisterBackend(id) ==
    /\ Len(registrations) < MaxRegistrations
    /\ backends' = backends \cup {id}
    /\ defaultID' = DefaultAfter(defaultID, id)
    /\ registrations' = Append(registrations, id)
    /\ UNCHANGED <<mainVars, detectVars, saveVars, lockVars, zoomVars>>

\* GetBackend(id): the backend's ID, "" for nil.
GetBackend(id) == IF id \in backends THEN id ELSE ""

\* DefaultBackend()
DefaultBackend == GetBackend(defaultID)

\* Agent.Backend() of an agent whose BackendID is tag.
Backend(tag) == IF GetBackend(tag) # "" THEN GetBackend(tag) ELSE DefaultBackend

NextRegistry == \E id \in BackendIDs : RegisterBackend(id)

SpecRegistry == InitRegistry /\ [][NextRegistry]_vars

-----------------------------------------------------------------------------
(* Properties of the classifier *)

\* The window DetectStatus scanned: the last Window(b) non-blank lines.
Scanned == Recent(content, Window(backendID))

RunningLine(b, line) ==
    CASE b = "claude" -> ClaudeRunningLine(line)
      [] b = "gemini" -> GeminiRunningLine(line)
      [] b = "codex" -> CodexRunningLine(line)

WaitingLine(b, line) ==
    CASE b = "claude" -> ClaudeWaitingLine(line)
      [] b = "gemini" -> GeminiWaitingLine(line)
      [] b = "codex" -> CodexWaitingLine(line)

IdleLine(b, line) ==
    CASE b = "claude" -> ClaudeIdleLine(line)
      [] b = "gemini" -> GeminiIdleLine(line)
      [] b = "codex" -> CodexIdleLine(line)

\* The window w holds a marker of the category for backend b.
HasMarkerIn(b, w, cat) ==
    CASE cat = StatusRunning -> \E i \in DOMAIN w : RunningLine(b, w[i])
      [] cat = StatusWaiting -> \E i \in DOMAIN w : WaitingLine(b, w[i])
      [] cat = StatusIdle -> \E i \in DOMAIN w : IdleLine(b, w[i])
      [] cat = StatusDone -> w # <<>> /\ BottomDone(w)

HasMarker(cat) == HasMarkerIn(backendID, Scanned, cat)

\* The first category of `order` that has a marker in w; RUNNING when none has.
RECURSIVE FirstMarkedIn(_, _, _)
FirstMarkedIn(b, w, order) ==
    IF order = <<>> THEN StatusRunning
    ELSE IF HasMarkerIn(b, w, Head(order)) THEN Head(order)
    ELSE FirstMarkedIn(b, w, Tail(order))

FirstMarked(order) ==
    LET w == Scanned IN FirstMarkedIn(backendID, w, order)

TerminationLine(i) ==
    \E p \in DonePhrases :
        Contains(ToLower(TrimSpace(stripAnsiStr(content[i]))), p)

\* C7: a termination phrase that appears only above the bottommost non-blank
\* line never makes DetectStatus return DONE, whatever the backend.
C7_DoneLocality ==
    ( /\ detected # "none"
      /\ \E i \in DOMAIN content : TerminationLine(i)
      /\ ~HasMarker(StatusDone) )
        => detected # StatusDone

\* C7 witness: a pane with a termination phrase above its bottommost non-blank
\* line, and none on it, has been classified.
C7_Witness ==
    /\ detected \in AgentStatus
    /\ \E i \in DOMAIN content : TerminationLine(i)
    /\ ~HasMarker(StatusDone)

-----------------------------------------------------------------------------
(* Properties of the dashboard *)

\* C1: discovery merge never creates duplicates: no two discovered agents of
\* the Store have the same session name (a name, not the empty string of a
\* process found outside tmux).
C1_OneAgentPerSessionName ==
    \A i, j \in 1..Len(agents) :
        (i # j /\ agents[i].Discovered /\ agents[j].Discovered
               /\ agents[i].SessionName # NoName)
            => agents[i].SessionName # agents[j].SessionName

\* The agent with the ID is in the Store after the step.
Kept(id) == \E j \in 1..Len(agents') : agents'[j].ID = id

\* C3: an agent doSpawn created is never removed from the Store by a step
\* that is not the operator's: every step but killSelected and the clearing
\* of DONE agents keeps it.
C3_SpawnedNeverAutoRemoved ==
    [][last'.op \notin {"kill", "clear"} =>
           \A i \in 1..Len(agents) : agents[i].spawnedByUs => Kept(agents[i].ID)]_vars

\* C8: revival: when mergeDiscovered receives an entry whose session name
\* is that of an agent with status DONE, that agent is RUNNING and discovered
\* after the merge.
C8_Revival ==
    [][last'.op = "merge" =>
           \A k \in 1..Len(pending.found), i \in 1..Len(agents) :
               (/\ pending.found[k].SessionName # NoName
                /\ agents[i].SessionName = pending.found[k].SessionName
                /\ agents[i].Status = StatusDone)
               => \E j \in 1..Len(agents') :
                      /\ agents'[j].ID = agents[i].ID
                      /\ agents'[j].Status = StatusRunning
                      /\ agents'[j].Discovered]_vars

\* C10: Kill on a handle whose session is already dead returns no error.
C10_KillIdempotent ==
    (last.op = "kill" /\ last.called /\ ~last.wasAlive) => ~last.err

-----------------------------------------------------------------------------
(* Properties of the hook fast path *)

\* What the scraping path returns for agent a: DONE when its session does not
\* exist or the capture fails, else the classification of the pane.
Scraped(a, env, pane) ==
    IF a.SessionName \notin env.tmux \/ a.SessionName \in env.vanish
    THEN StatusDone
    ELSE SampleStatus[AgentBackend(a)][pane]

\* C2: for every agent, discovered or not, DetectStatus returns DONE when
\* the agent's session does not exist at the time of the call, whatever the
\* hook status file says.
C2_MissingSessionIsDone ==
    \A i \in 1..Len(agents), pane \in SamplePanes :
        agents[i].SessionName \notin tmux =>
            ManagerDetectStatus(agents[i], sessions, Env(tmux, {}, FALSE, TRUE), pane).status
                = StatusDone

\* The expiry window of a record, as the rule states it.
Window9(state) == IF state = "RUNNING" THEN 30 ELSE 300

\* The record is readable, parses, names one of the four states and is no
\* older than its window.
FreshRecord(f, t) ==
    f.kind = "json" /\ f.State \in AgentStatus /\ t - f.Ts <= Window9(f.State)

\* C9: the hook fast path yields a status, the record's, only if the status
\* file is readable, parses, names one of the four states and is at most 30 s
\* old for RUNNING, 300 s for WAITING, IDLE and DONE; otherwise DetectStatus
\* returns what the scraping path decides.
C9_HookStaleness ==
    \A i \in 1..Len(agents) :
        ~agents[i].Discovered =>
            LET a == agents[i]
                f == hook[a.ID]
                h == readHookStatusFile(f, now)
            IN  /\ h.ok <=> FreshRecord(f, now)
                /\ h.ok => h.status = f.State
                /\ \A pane \in SamplePanes, vanish \in {{}} \cup {{n} : n \in tmux} :
                       LET env == Env(tmux, vanish, FALSE, TRUE)
                           r == ManagerDetectStatus(a, sessions, env, pane)
                       IN  IF FreshRecord(f, now)
                           THEN r.hookOk /\ r.status = f.State
                           ELSE ~r.hookOk /\ r.status = Scraped(a, env, pane)

\* A tick has just decided, by the scraping path, the status of an agent whose
\* RUNNING record is older than the short window: the agent is not RUNNING.
C9_Witness ==
    /\ last.op = "tick"
    /\ \E i \in 1..Len(agents) :
           /\ ~agents[i].Discovered
           /\ hook[agents[i].ID].kind = "json"
           /\ hook[agents[i].ID].State = "RUNNING"
           /\ now - hook[agents[i].ID].Ts > 30
           /\ agents[i].Status # StatusRunning
           /\ agents[i].StatusSince = now

-----------------------------------------------------------------------------
(* Properties of the state file *)

\* C4: when the process is killed during a save, the state file is either
\* the complete previous document or the complete new one.
C4_AtomicSave ==
    last.op = "killed in save" =>
        file = saving.prev \/ file = Marshal(saving.data)

\* C11: no AgentManager operation holds m.mu while a subprocess or an
\* operation on a session's client file is in progress.
C11_NoLockAcrossIO ==
    \A g \in Goroutines : StepOf(g) \in {"exec", "pty"} => ~Holds(g)

\* The IDs of the Store's agents, in order.
IDsOf(ags) == [i \in 1..Len(ags) |-> ags[i].ID]

UniqueIDs(ags) == \A i, j \in 1..Len(ags) : ags[i].ID = ags[j].ID => i = j

\* p is q with some of its elements taken out.
RECURSIVE IsSubSeq(_, _)
IsSubSeq(p, q) ==
    IF p = <<>> THEN TRUE
    ELSE IF q = <<>> THEN FALSE
    ELSE IF Head(p) = Head(q) THEN IsSubSeq(Tail(p), Tail(q))
    ELSE IsSubSeq(p, Tail(q))

\* C12: in every state of the Store no two agents have the same ID, and every
\* step (Add, Remove, Update, UpdateSessionName, UpdateDiscovered, ClearDone,
\* NewStore) leaves the IDs of the agents it keeps as they were: the IDs
\* after it are those before it with some removed or with the new ID appended.
C12_IdentityUniqueImmutable ==
    /\ []UniqueIDs(agents)
    /\ [][\/ IsSubSeq(IDsOf(agents'), IDsOf(agents))
          \/ IDsOf(agents') = Append(IDsOf(agents), nextID)]_vars

\* A Store of two agents has been reloaded by NewStore.
C12_Witness == last.op = "NewStore" /\ Len(agents) = 2

\* C13: every ID Add hands out is greater than every ID handed out before,
\* in this process or an earlier one.
C13_MonotoneIDs ==
    [][last'.op = "Add" => \A x \in issued : x < nextID]_vars

\* C14: over every step, an agent whose status changed has the time of the
\* step as its StatusSince, and an agent whose status did not change, an
\* Update with the status it already has included, keeps its StatusSince.
C14_StatusSince ==
    [][\A i \in 1..Len(agents), j \in 1..Len(agents') :
          agents[i].ID = agents'[j].ID =>
              IF agents'[j].Status # agents[i].Status
              THEN agents'[j].StatusSince = now
              ELSE agents'[j].StatusSince = agents[i].StatusSince]_vars

\* After time has passed, Update changed the first agent's status, and an
\* Update found the second agent, added before, with its timestamp kept.
C14_Witness ==
    /\ last.op = "Update" /\ now > 0 /\ Len(agents) = MaxAgents
    /\ agents[1].Status # StatusRunning /\ agents[1].StatusSince = now
    /\ agents[2].StatusSince < now

\* The status messages that report success.
SuccessMessages == {"Spawned", "Killed", "Sent to"}

\* C15: a spawn, kill or send-keys that failed has set a status message that
\* is not a success message.
C15_FailureReported ==
    last.op \in {"spawn", "kill", "send"} /\ last.err => last.msg \notin SuccessMessages

\* C16: no DiscoveredAgent of a scan names a session with the managed prefix,
\* or a process that runs inside such a session.
C16_DiscoveryExcludesManaged ==
    \A k \in 1..Len(pending.found) :
        /\ ~HasManagedPrefix(pending.found[k].SessionName)
        /\ ~HasManagedPrefix(pending.found[k].PID.inside)

\* C17: for every agent without session name, discovered or not, DetectStatus
\* returns DONE, whatever tmux holds and whatever a capture would show.
C17_NoSessionNameIsDone ==
    \A i \in 1..Len(agents), pane \in SamplePanes, empty \in BOOLEAN :
        agents[i].SessionName = NoName =>
            ManagerDetectStatus(agents[i], sessions, Env(tmux, {}, empty, TRUE), pane).status
                = StatusDone

C19_GetSession ==
    \A i \in 1..Len(agents), attachOk \in BOOLEAN :
        LET a == agents[i]
            g == GetSession(a, sessions, Env(tmux, {}, FALSE, attachOk))
        IN  IF a.ID \in DOMAIN sessions
            THEN g.sess = sessions[a.ID] /\ g.reg = sessions
            ELSE IF a.SessionName # NoName /\ a.SessionName \in tmux
            THEN /\ g.sess.Name = a.SessionName
                 /\ g.sess.ptmx
                 /\ g.reg = Register(sessions, a.ID, g.sess)
            ELSE g.sess = NoHandle /\ g.reg = sessions

\* C20: CloseAll closes the client of every registered handle and destroys
\* no session: the sessions of tmux are those there were before, the same
\* handles are registered, and none has its client open.
C20_CloseAll ==
    [][last'.op = "closeAll" =>
          /\ tmux' = tmux
          /\ DOMAIN sessions' = DOMAIN sessions
          /\ \A id \in DOMAIN sessions' :
                 sessions'[id].Name = sessions[id].Name /\ ~sessions'[id].ptmx]_vars

\* CloseAll has run over a registry with the handle of a live session.
C20_Witness ==
    /\ last.op = "closeAll"
    /\ \E id \in DOMAIN sessions : sessions[id].Name \in tmux /\ ~sessions[id].ptmx

C22_MergeOfLiveMatchIsNoOp ==
    \A i \in 1..Len(agents) :
        agents[i].Status # StatusDone =>
            mergeDiscovered(<<[SessionName |-> agents[i].SessionName]>>,
                            agents, nextID, now)
                = [ags |-> agents, nid |-> nextID]

\* The lines hold no chrome marker: no prompt-glyph line, no separator rule.
NoChromeMarker(lines) ==
    \A i \in DOMAIN lines : ~IsPromptLine(lines[i]) /\ ~IsRuleLine(lines[i])

\* C23: for every backend and both values of isWaiting, StripChrome returns
\* lines without chrome marker as they are.
C23_StripChromeIdentity ==
    stripped.done /\ NoChromeMarker(content) => stripped.lines = content

\* C23 as the code has it: lines without chrome marker come back as they
\* are, except from Claude's StripChrome with isWaiting set, which returns
\* them without their last non-blank line (all of them when every line is
\* blank).
C23_StripChromeNoMarker ==
    stripped.done /\ NoChromeMarker(content) =>
        IF backendID = "claude" /\ waiting
        THEN LET k == LastIndex(content, Len(content), IsNonBlankLine)
             IN  IF k = 0 THEN stripped.lines = content
                 ELSE /\ Len(stripped.lines) = Len(content) - 1
                      /\ \A i \in 1..(k - 1) : stripped.lines[i] = content[i]
                      /\ \A i \in k..(Len(content) - 1) : stripped.lines[i] = content[i + 1]
        ELSE stripped.lines = content

\* Claude's StripChrome with isWaiting has returned lines without chrome
\* marker one line short, the blank line below the dropped one kept.
C23_Witness ==
    /\ stripped.done /\ NoChromeMarker(content)
    /\ backendID = "claude" /\ waiting
    /\ Len(content) = MaxLines /\ ~IsNonBlankLine(content[MaxLines])
    /\ Len(stripped.lines) = MaxLines - 1

\* The process stopped with no save under way.
StoppedOutsideSave == saving = [NotSaving EXCEPT !.phase = "down"]

Tags == BackendIDs \cup {"", "cursor"}

\* C27: once a backend is registered, the default backend is the one
\* registered first, no later registration changes it, and an agent whose
\* backend tag is empty or names no registered backend gets that backend.
C27_DefaultIsFirstRegistered ==
    /\ [](registrations # <<>> =>
             /\ DefaultBackend = registrations[1]
             /\ \A tag \in Tags \ backends : Backend(tag) = registrations[1])
    /\ [][registrations # <<>> => defaultID' = defaultID]_vars

\* Several backends have been registered after the first one, the last of
\* them a different backend, and one backend is still missing.
C27_Witness ==
    /\ Len(registrations) = MaxRegistrations
    /\ registrations[MaxRegistrations] # registrations[1]
    /\ backends # BackendIDs
    /\ Backend("cursor") = registrations[1]

\* The empty pane: strings.Split("", "\n") is one empty line.
EmptyPane == << <<>> >>

\* C25: every backend's DetectStatus returns, for every pane, the empty pane
\* included, one of RUNNING, WAITING, IDLE and DONE.
C25_DetectStatusTotal ==
    detected # "none" => detected \in AgentStatus

\* Codex has classified the empty pane.
C25_Witness ==
    /\ backendID = "codex" /\ content = EmptyPane
    /\ detected \in AgentStatus

\* C26: a pane in whose window no RUNNING, WAITING, IDLE or DONE rule of the
\* backend matches, and so every pane without a non-blank line, is RUNNING.
C26_NoMatchIsRunning ==
    (detected # "none" /\ \A cat \in AgentStatus : ~HasMarker(cat))
        => detected = StatusRunning

\* Gemini has classified a pane of two lines, both blank, one of them a
\* space, as RUNNING.
C26_Witness ==
    /\ backendID = "gemini"
    /\ Len(content) = MaxShort /\ content[1] = <<" ">>
    /\ \A i \in DOMAIN content : ~IsNonBlankLine(content[i])
    /\ detected = StatusRunning

\* NewStore has run: it returned a Store or an error.
Started == saving.phase = "down" /\ last'.op \in {"NewStore"} \cup StartupErrors

\* Every record of the file that has no backend tag was loaded with the
\* default backend's.
UntaggedGetDefault ==
    \A i \in 1..Len(file.body) :
        "backend" \in file.body[i].omitted => agents'[i].BackendID = DefaultBackend

\* C28 as stated: with no state file NewStore returns an empty Store and no
\* error; a record without backend tag is loaded with the default backend's;
\* NewStore returns an error only when the file exists and cannot be read or
\* parsed.
C28_Startup ==
    [][Started =>
           /\ ~file.exists => last'.op = "NewStore" /\ agents' = <<>>
           /\ last'.op = "NewStore" => UntaggedGetDefault
           /\ last'.op \in StartupErrors =>
                  file.exists /\ (last'.op = "load state" \/ ~Parses(file))]_vars

\* C28 amended: NewStore returns an error when the state directory cannot
\* be created; when it can, NewStore returns an empty Store and no error
\* with no state file, loads a record without backend tag with the default
\* backend's, and returns an error only when the file exists and cannot be
\* read or parsed.
C28_StartupAfterMkdir ==
    [][Started =>
           IF last'.op = "create state dir" THEN ~file.exists /\ UNCHANGED agents
           ELSE /\ ~file.exists => last'.op = "NewStore" /\ agents' = <<>>
                /\ last'.op = "NewStore" =>
                       Len(agents') = Len(file.body) /\ UntaggedGetDefault
                /\ last'.op \in StartupErrors =>
                       file.exists /\ (last'.op = "load state" \/ ~Parses(file))]_vars

\* A program has started from a file of two records, the first of them
\* without backend tag, and its Store gives that agent the default backend.
C28_Witness ==
    /\ last.op = "NewStore" /\ saving = NotSaving
    /\ Len(file.body) = 2 /\ Len(agents) = 2
    /\ "backend" \in file.body[1].omitted /\ "backend" \notin file.body[2].omitted
    /\ agents[1].BackendID = DefaultBackend

\* The handles whose background client is open.
OpenHandles == {h \in DOMAIN heap : heap[h].ptmx}

\* The handles a call in progress holds in its local variable.
HeldByCall == {threads[g].sess : g \in Goroutines}

\* C29: in every state reached by SpawnAgent, RespawnAgent, GetSession, Kill
\* and CloseAll in any interleaving, at most one handle of the agent has an
\* open background client, and a handle with an open client is the
\* registry's entry for the agent or the handle a call in progress is about
\* to register or to close.
C29_OneRegisteredClient ==
    /\ Cardinality(OpenHandles) <= 1
    /\ \A h \in OpenHandles :
           \/ RaceID \in DOMAIN sessions /\ sessions[RaceID] = h
           \/ h \in HeldByCall

\* The goroutines other than g are in no call or in GetSession.
OthersOnlyGetSession(g) ==
    \A o \in Goroutines \ {g} : threads[o].op \in {"none", "GetSession"}

\* C30: when Kill returns, with the other goroutines idle or inside
\* GetSession, the registry has no handle for the agent and no handle of the
\* agent has an open background client.
C30_KillIsFinal ==
    [][\A g \in Goroutines :
           ( /\ threads[g].op = "Kill"
             /\ threads'[g] = NotCalling
             /\ OthersOnlyGetSession(g) )
               => /\ RaceID \notin DOMAIN sessions'
                  /\ \A h \in DOMAIN heap' : ~heap'[h].ptmx]_vars

-----------------------------------------------------------------------------
(* Properties of the spawn, the merge and the discovered agents *)

\* C31: a spawn that failed leaves the Store as it was before the attempt:
\* no agent carries the ID the attempt was given.
C31_FailedSpawnLeavesNoAgent ==
    [][last'.op = "spawn" /\ last'.err =>
           agents' = agents /\ IndexOf(agents', last'.id) = 0]_vars


\* The sessions of the machine that tickettok did not create.
ForeignSessions == {n \in tmux : ~HasManagedPrefix(n)}

\* C32: whatever the foreign panes run, every agent that the merge of one
\* backend's Discover() result adds to the Store is governed by that backend:
\* Agent.Backend() of the new agent is the backend that found it.
C32_DiscoveredAgentKeepsItsBackend ==
    \A b \in BackendIDs, paneCmd \in [ForeignSessions -> Commands] :
        LET looks == [n \in ForeignSessions |-> {}]
            found == Discover(b, tmux, paneCmd, looks, Processes(tmux, paneCmd, {}))
            r == mergeDiscovered(found, agents, nextID, now)
        IN  \A i \in (Len(agents) + 1)..Len(r.ags) : AgentBackend(r.ags[i]) = b


\* C33: no step registers a handle for a discovered agent, and the kill and
\* the send of a discovered agent do not go through a GetSession that
\* attaches a background client to its session and registers a handle.
C33_DiscoveredAgentsAreNeverAttached ==
    [][\A i \in 1..Len(agents) :
           agents[i].Discovered =>
               /\ agents[i].ID \notin DOMAIN sessions'
               /\ (last'.op \in {"kill", "send"} /\ last'.id = agents[i].ID) =>
                      \A attachOk \in BOOLEAN :
                          GetSession(agents[i], sessions,
                                     Env(tmux, {}, FALSE, attachOk)).reg = sessions]_vars


\* C34: when Store.Add gives an agent its ID, no hook status file of that ID
\* exists: the file of an earlier agent of the same ID was deleted when that
\* agent left the Store.
C34_NoHookFileForNewAgent ==
    [][last'.op = "spawn" => hook[last'.id] = NoFile]_vars


(***************************************************************************)
(* Store.mu, step by step                                                  *)
(***************************************************************************)

\* The steps of a call on the Store's agents: "Lock", "Unlock", "RLock" and
\* "RUnlock" are here on s.mu, "map" is a read or write of s.agents, "exec" a
\* tmux subprocess, "file" a read or write of a file, and the others a read or
\* a write of one field of the stored agent through its pointer.  In SpecShare
\* mu stands for s.mu, g1 for the goroutine of the program's Update loop and
\* g2 for the goroutine that runs a command.
Fields == {"Status", "StatusSince", "SessionName", "Discovered"}

ReadOf == [Status |-> "read Status", StatusSince |-> "read StatusSince",
           SessionName |-> "read SessionName", Discovered |-> "read Discovered"]

WriteOf == [Status |-> "write Status", StatusSince |-> "write StatusSince",
            SessionName |-> "write SessionName", Discovered |-> "write Discovered"]

\* save: the agents are marshalled, every field read, and the file written.
saveSteps ==
    <<ReadOf.Status, ReadOf.StatusSince, ReadOf.SessionName, ReadOf.Discovered, "file">>

\* Store.List: the slice of pointers is copied under the read lock.
ListSteps == <<"RLock", "map", "RUnlock">>

\* Store.Add.
AddSteps ==
    <<"Lock", "map">> \o saveSteps \o <<"Unlock">>

\* Store.Update: the status is compared, and written with its timestamp when
\* it changes.
StoreUpdateSteps(changes) ==
    <<"Lock", "map", ReadOf.Status>> \o
    (IF changes THEN <<WriteOf.Status, WriteOf.StatusSince>> ELSE <<>>) \o
    saveSteps \o <<"Unlock">>

\* Store.UpdateSessionName and Store.UpdateDiscovered.
UpdateFieldSteps(f) ==
    <<"Lock", "map", WriteOf[f]>> \o saveSteps \o <<"Unlock">>

\* Store.Remove.
RemoveSteps ==
    <<"Lock", "map", "map">> \o saveSteps \o <<"Unlock">>

\* reconcileCmd over one stored agent.
reconcileCmdSteps(discovered, done, alive) ==
    ListSteps \o <<ReadOf.Discovered>> \o
    (IF ~discovered THEN <<>>
     ELSE <<ReadOf.Status>> \o
          (IF done THEN <<>>
           ELSE <<ReadOf.SessionName, "exec">> \o
                (IF alive THEN <<>> ELSE StoreUpdateSteps(TRUE))))

\* refreshStatuses over one agent of m.agents: DetectStatus, the comparison
\* with the stored status, Store.Update, and the pruning loop.
refreshStatusesSteps(discovered, changes, done, expired) ==
    <<ReadOf.Discovered>> \o
    (IF discovered THEN <<ReadOf.SessionName, "exec", "exec">> ELSE <<"file">>) \o
    <<ReadOf.Status>> \o
    (IF changes THEN StoreUpdateSteps(TRUE) ELSE <<>>) \o
    <<ReadOf.Discovered>> \o
    (IF ~discovered THEN <<>>
     ELSE <<ReadOf.Status>> \o
          (IF ~done THEN <<>>
           ELSE <<ReadOf.StatusSince>> \o (IF expired THEN RemoveSteps ELSE <<>>)))

\* mergeDiscovered for one candidate against one agent of m.agents.
mergeDiscoveredSteps(case) ==
    <<ReadOf.SessionName>> \o
    CASE case = "tracked" -> <<ReadOf.Status>>
      [] case = "revived" ->
             <<ReadOf.Status>> \o StoreUpdateSteps(TRUE) \o UpdateFieldSteps("Discovered")
      [] case = "new" ->
             AddSteps \o <<WriteOf.SessionName, WriteOf.Discovered>> \o
             UpdateFieldSteps("SessionName") \o UpdateFieldSteps("Discovered")

MergeCases == {"tracked", "revived", "new"}

\* What the Update loop runs.
LoopCalls ==
    {[op |-> "refreshStatuses", steps |-> refreshStatusesSteps(d, c, e, x), pc |-> 1] :
         d \in BOOLEAN, c \in BOOLEAN, e \in BOOLEAN, x \in BOOLEAN}
    \cup {[op |-> "mergeDiscovered", steps |-> mergeDiscoveredSteps(k), pc |-> 1] :
              k \in MergeCases}

\* What a command goroutine runs.
CmdCalls ==
    {[op |-> "reconcileCmd", steps |-> reconcileCmdSteps(d, e, a), pc |-> 1] :
         d \in BOOLEAN, e \in BOOLEAN, a \in BOOLEAN}

Accesses == {ReadOf[f] : f \in Fields} \cup {WriteOf[f] : f \in Fields}

\* A field of the agent, or a file, is read or written.
Touch(g) ==
    /\ StepOf(g) \in Accesses \cup {"file"}
    /\ threads' = Advanced(g)
    /\ UNCHANGED <<mu, heap, mainVars, detectVars, saveVars, registryVars, zoomVars>>

NextShare ==
    \/ \E c \in LoopCalls : Call("g1", c)
    \/ \E c \in CmdCalls : Call("g2", c)
    \/ \E g \in Goroutines :
           \/ Acquire(g)
           \/ Release(g)
           \/ Work(g)
           \/ Touch(g)
           \/ Return(g)

SpecShare == Init /\ [][NextShare]_vars

\* Every read or write of a stored agent's status, status-since timestamp,
\* session name or discovered flag happens while the goroutine holds the
\* Store lock.
FieldsOnlyUnderStoreLock ==
    \A g \in Goroutines : StepOf(g) \in Accesses => Holds(g)

\* C35: the Store serializes all access to agent state, so no goroutine reads
\* or writes a field of a stored agent while another goroutine is writing
\* that field.
C35_NoReadDuringWrite ==
    \A g, h \in Goroutines, f \in Fields :
        g # h /\ StepOf(g) = WriteOf[f] => StepOf(h) \notin {ReadOf[f], WriteOf[f]}


(***************************************************************************)
(* The pruning pass and the clock                                          *)
(***************************************************************************)

\* The seconds at which the program is looked at: around one grace window, and
\* around a second one that starts after a revival.
PruneTimes == {PruneGrace, PruneGrace + 1, 2 * PruneGrace + 2}

\* Runs with discovered agents only: sessions of other programs start and end,
\* discovery finds them, and ticks detect and prune while the clock moves.
NextPrune ==
    \/ Tick
    \/ discoverCmd
    \/ discoverMsg
    \/ \E name \in tmux : SessionExit(name)
    \/ \E name \in ExternalNames : ExternalStart(name)
    \/ \E t \in PruneTimes : AdvanceTo(t)

SpecPrune == Init /\ [][NextPrune]_vars

BoundSessions == {agents[i].SessionName : i \in 1..Len(agents)} \ {NoName}

\* The clock of the runs without end: seconds pass, and once the clock is at
\* MaxTime every timestamp moves back instead, down to second 0, which keeps
\* every age up to MaxTime as it is.
Elapse ==
    LET shift == IF now + PruneGrace + 1 <= MaxTime THEN 0 ELSE PruneGrace + 1
    IN  /\ now' = now + PruneGrace + 1 - shift
        /\ agents' = [i \in 1..Len(agents) |->
                         [agents[i] EXCEPT !.StatusSince =
                              IF @ >= shift THEN @ - shift ELSE 0]]
        /\ last' = [op |-> "wait"]
        /\ UNCHANGED <<nextID, sessions, tmux, hook, pending, detectVars, saveVars, lockVars, registryVars, zoomVars>>

\* A scan while no agent runs outside tmux: every entry names a session.
discoverSessionsOnly ==
    /\ discoverCmd
    /\ \A k \in 1..Len(pending'.found) : pending'.found[k].SessionName # NoName

NextGone ==
    \/ Tick
    \/ discoverSessionsOnly
    \/ discoverMsg
    \/ \E name \in tmux : SessionExit(name)
    \/ \E name \in ExternalNames : ExternalStart(name)
    \/ Elapse

\* Tick again, with the conjunct first that tells its steps from the steps of
\* the other handlers.
TickFires == last' = [op |-> "tick"] /\ Tick

\* Ticks keep firing and the clock keeps moving.
SpecGone ==
    /\ Init
    /\ [][NextGone]_vars
    /\ WF_vars(TickFires)
    /\ WF_vars(Elapse)

MaxCaptures == 3

Without(s, k) == SubSeq(s, 1, k - 1) \o SubSeq(s, k + 1, Len(s))

\* What enterZoom leaves when it returns without entering the view.
StaysOnBoard(reg, tmx, msg) ==
    /\ sessions' = reg
    /\ tmux' = tmx
    /\ last' = [op |-> "zoom", err |-> TRUE, msg |-> msg]
    /\ UNCHANGED <<agents, zoomVars>>

\* What enterZoom leaves when it enters the view on the session: the view,
\* the session, and the first zoomCaptureCmd.
EntersZoom(ags, reg, tmx, name) ==
    /\ agents' = ags
    /\ sessions' = reg
    /\ tmux' = tmx
    /\ view' = "zoom"
    /\ zoomSession' = name
    /\ captures' = Append(captures, name)
    /\ last' = [op |-> "zoom", err |-> FALSE, msg |-> ""]

\* enterZoom on the i-th agent, from the board or the carousel.  A discovered
\* agent is zoomed without handle; a spawned one through GetSession, and
\* through RespawnAgent when its session is dead.  attachOk and outcome are
\* what tmux does.
enterZoom(i, attachOk, outcome) ==
    /\ view = "board"
    /\ i \in 1..Len(agents)
    /\ Len(captures) < MaxCaptures
    /\ LET a == agents[i]
           env == Env(tmux, {}, FALSE, attachOk)
           g == GetSession(a, sessions, env)
           r == SpawnAgent(a.ID, g.reg, tmux, outcome)
       IN  IF a.Discovered
           THEN IF ~IsSessionAlive(a.SessionName, env)
                THEN StaysOnBoard(sessions, tmux, "External session no longer alive")
                ELSE EntersZoom(agents, sessions, tmux, a.SessionName)
           ELSE IF g.sess # NoHandle /\ g.sess.Name \in tmux
           THEN EntersZoom(agents, g.reg, tmux, g.sess.Name)
           ELSE IF r.err
           THEN StaysOnBoard(g.reg, r.tmux, "Resume error")
           ELSE EntersZoom(StoreUpdate(StoreUpdateSessionName(agents, a.ID, r.name),
                                       a.ID, StatusRunning, now),
                           r.reg, r.tmux, r.name)
    /\ UNCHANGED <<nextID, hook, now, pending, detectVars, saveVars, lockVars, registryVars>>

\* handleZoomKey on ctrl+q: back to the board, the zoom fields cleared.
leaveZoom ==
    /\ view = "zoom"
    /\ view' = "board"
    /\ zoomSession' = NoName
    /\ last' = [op |-> "unzoom"]
    /\ UNCHANGED <<agents, nextID, sessions, tmux, hook, now, pending, captures,
                   detectVars, saveVars, lockVars, registryVars>>

\* zoomTickMsg: the k-th capture in flight returns.  In the zoom view the
\* handler schedules the next zoomCaptureCmd on Model.zoomSession; elsewhere
\* the message is dropped.
zoomTick(k) ==
    /\ k \in 1..Len(captures)
    /\ captures' = IF view = "zoom"
                   THEN Append(Without(captures, k), zoomSession)
                   ELSE Without(captures, k)
    /\ last' = [op |-> "zoomTick", from |-> captures[k], shown |-> view = "zoom"]
    /\ UNCHANGED <<agents, nextID, sessions, tmux, hook, now, pending, view, zoomSession,
                   detectVars, saveVars, lockVars, registryVars>>

\* The operator spawns agents, sessions of other programs are discovered,
\* sessions end, and the operator enters and leaves the zoom view while the
\* captures return.
NextZoom ==
    \/ doSpawn("ok")
    \/ discoverSessionsOnly
    \/ discoverMsg
    \/ \E name \in tmux : SessionExit(name)
    \/ \E name \in ExternalNames : ExternalStart(name)
    \/ \E i \in 1..MaxAgents, attachOk \in BOOLEAN,
          outcome \in {"ok", "new-session fails"} : enterZoom(i, attachOk, outcome)
    \/ leaveZoom
    \/ \E k \in 1..MaxCaptures : zoomTick(k)

SpecZoom == Init /\ [][NextZoom]_vars

\* C38: at most one zoom capture is in flight at any time, and in the zoom
\* view it targets the session that is zoomed.
C38_OneCaptureLoop ==
    /\ Len(captures) <= 1
    /\ view = "zoom" => \A k \in 1..Len(captures) : captures[k] = zoomSession


(***************************************************************************)
(* Properties of the scanned window                                        *)
(***************************************************************************)

\* The lines that are not blank once ANSI codes and blanks are removed.
NonBlank(lines) == {i \in DOMAIN lines : TrimSpace(stripAnsiStr(lines[i])) # <<>>}

\* The pane's top line lies above the backend's window: at least Window
\* non-blank lines follow it.
TopAboveWindow ==
    Len(content) > 1 /\ Cardinality(NonBlank(content) \ {1}) >= Window(backendID)

=============================================================================
